---------------------------- MODULE Spec2Model ----------------------------
(***************************************************************************)
(* A model of the pyinterp core: the geodetic R*-tree (packing, insert,    *)
(* k-nearest queries), the range-partitioned worker threads of the        *)
(* vectorized operations, the Poisson gap filler and the Cartesian grids.  *)
(*                                                                         *)
(* Numbers.  Lengths are in kilometres and angles in degrees; the          *)
(* geodetic points are taken on the lattice of multiples of 90 degrees,    *)
(* where the sines and cosines are -1, 0 or 1 and the conversions between  *)
(* LLA and ECEF are exact in integers.  Grid values are fixed-point        *)
(* numbers, multiples of 1/Scale.                                          *)
(***************************************************************************)
EXTENDS Integers, Sequences, FiniteSets, Bags, TLC

VARIABLES
  \* ---- geodetic RTree (rtree.hpp)
  tree,        \* the stored (ECEF point, value) pairs, in the tree's internal order
  stored,      \* history: the bag of (ECEF point, value) pairs supplied since the last packing
  lastQuery,   \* the last RTree.query call: its arguments and the output row
  loaded,      \* the last packing or insert call: its shapes and its outcome
  \* ---- a vectorized call run by worker threads
  op,          \* the operation called
  args,        \* its arguments
  pc,          \* "idle", "running", "returned" or "raised"
  wcur,        \* per worker: the next index of its range
  wend,        \* per worker: the end of its range
  wstate,      \* per worker: "running", "finished" or "none" (not started)
  except,      \* the captured exception: 0 (nullptr) or the worker that threw last
  out,         \* the output array: index -> value or Unset
  nwrites,     \* history: index -> number of times it was written
  threw,       \* history: the set of workers in which an exception was raised
  \* ---- fill::poisson
  grid,        \* the values of the grid, cell -> fixed-point number
  grid0,       \* history: the grid as the sweep under way, or the last one, found it
  mask,        \* the cells that were NaN on entry
  prm,         \* the arguments of the call
  ppc,         \* "start", "sweep" (the threads of a sweep are running) or "done"
  iteration,   \* the number of sweeps started
  max_residual, \* the max residual of the last sweep joined
  wpos,        \* per thread of the sweep: the number of masked cells it has filled
  wres,        \* per thread of the sweep: its max_residuals slot
  access,      \* history: per thread, the cells it read and wrote in this sweep
  residuals,   \* history: the max residual of every sweep joined
  \* ---- Grid2D, Grid3D
  built,       \* the grid the last constructor call made, or NoGrid
  ctor,        \* the last constructor call: its arguments and its error
  \* ---- Axis
  axis,        \* the axis constructed, or NoAxis
  orig,        \* history: the axis as it was constructed
  chain,       \* the axis the last flip returned (the receiver of the next call)
  aliased,     \* chain is the object axis itself, not a copy
  flips,       \* history: the number of flip calls
  inplaces,    \* history: the number of them made with inplace = True
  found,       \* the last find_index call: its arguments and its result
  \* ---- Binning2D
  bcfg,        \* the axes of the binnings
  bins,        \* the accumulators of three binnings on these axes
  pushed,      \* the last push: the sample and the accumulators before it
  merged,      \* the results of (B1 += B2) += B3 and of B1 += (B2 += B3)
  \* ---- fill::loess
  lin,         \* the arguments of the call
  lout,        \* the result array, cell -> value or Unset
  lcur,        \* per worker: the next row of its range
  lpc,         \* "start", "running" or "returned"
  interp       \* the last call of linear: its arguments and its value

treeVars == <<tree, stored, lastQuery, loaded>>
parVars  == <<op, args, pc, wcur, wend, wstate, except, out, nwrites, threw>>
poiVars  == <<grid, grid0, mask, prm, ppc, iteration, max_residual, wpos, wres, access, residuals>>
gridVars == <<built, ctor>>
axisVars == <<axis, orig, chain, aliased, flips, inplaces, found>>
binVars  == <<bcfg, bins, pushed, merged>>
loessVars == <<lin, lout, lcur, lpc>>
linearVars == <<interp>>
vars     == <<treeVars, parVars, poiVars, gridVars, axisVars, binVars, loessVars, linearVars>>

----------------------------------------------------------------------------
(* Bounds of the model *)

MaxPoints == 2      \* points held by the tree
MaxK == 2           \* neighbours asked for
MaxThreads == 3     \* num_threads
MaxSize == 3        \* length of a vectorized call's input
MaxIter == 3        \* max_iterations
MaxAxis == 3        \* length of an axis
MaxFlips == 2       \* flip calls chained on an axis
MantissaBits == 3   \* bits of the significand of a floating point sum
MaxPushes == 3      \* values pushed into the binnings
MaxRows == 2        \* length of the X axis of the grid loess fills

----------------------------------------------------------------------------
(* Small helpers *)

Abs(n) == IF n < 0 THEN -n ELSE n
Sign(n) == IF n < 0 THEN -1 ELSE IF n > 0 THEN 1 ELSE 0
Min2(a, b) == IF a < b THEN a ELSE b
Max2(a, b) == IF a > b THEN a ELSE b
SetMin(S) == CHOOSE m \in S : \A n \in S : m <= n
SetMax(S) == CHOOSE m \in S : \A n \in S : m >= n
SeqToBag(s) == [e \in {s[i] : i \in 1..Len(s)} |-> Cardinality({i \in 1..Len(s) : s[i] = e})]

----------------------------------------------------------------------------
(* Geodetic system: WGS84, in kilometres *)

SemiMajorAxis == 6378
InverseFlattening == 298
SemiMinorAxis == SemiMajorAxis - SemiMajorAxis \div InverseFlattening

\* cosine and sine of a multiple of 90 degrees
CosDeg(d) == CASE d % 360 = 0 -> 1 [] d % 360 = 90 -> 0 [] d % 360 = 180 -> -1 [] d % 360 = 270 -> 0
SinDeg(d) == CosDeg(d - 90)

\* LLA -> ECEF.  On the lattice the prime vertical radius N is a at the equator,
\* and N (1 - e^2) is b at the poles.
LlaToEcef(p) ==
  [x |-> (SemiMajorAxis + p.alt) * CosDeg(p.lat) * CosDeg(p.lon),
   y |-> (SemiMajorAxis + p.alt) * CosDeg(p.lat) * SinDeg(p.lon),
   z |-> (SemiMinorAxis + p.alt) * SinDeg(p.lat)]

\* ECEF -> LLA, the inverse on the lattice; at a pole the longitude is atan2(0, 0) = 0.
EcefToLla(e) ==
  IF e.x = 0 /\ e.y = 0
  THEN [lon |-> 0, lat |-> 90 * Sign(e.z), alt |-> Abs(e.z) - SemiMinorAxis]
  ELSE [lon |-> IF e.y = 0 THEN (IF e.x > 0 THEN 0 ELSE 180) ELSE 90 * Sign(e.y),
        lat |-> 0,
        alt |-> Abs(e.x) + Abs(e.y) - SemiMajorAxis]

\* twice the haversine of the central angle between two points: 0, 1 or 2 for
\* 0, 90 or 180 degrees
TwoHav(p, q) ==
  (1 - CosDeg(p.lat - q.lat)) + CosDeg(p.lat) * CosDeg(q.lat) * (1 - CosDeg(p.lon - q.lon))

\* strategy_: haversine on the sphere of radius semi_major_axis; the altitudes do
\* not enter.  The arc is radius * angle, the angle TwoHav * pi/2, pi/2 ~ 355/226.
Haversine(p, q) == (TwoHav(p, q) * SemiMajorAxis * 355) \div 226

\* the comparable (squared Euclidean) distance of the Cartesian index
Dist2(a, b) == (a.x - b.x) * (a.x - b.x) + (a.y - b.y) * (a.y - b.y) + (a.z - b.z) * (a.z - b.z)


----------------------------------------------------------------------------
(* The geodetic RTree: rtree.hpp *)

\* the inputs of the model: points of the lattice and values
Lattice ==
  { [lon |-> 0,   lat |-> 0,  alt |-> 0],
    [lon |-> 0,   lat |-> 0,  alt |-> 10000],
    [lon |-> -90, lat |-> 0,  alt |-> 0] }
Values == {1, 2}

\* the rows a coordinates matrix with Dimensions columns can hold
Rows(Dimensions) ==
  IF Dimensions = 3
  THEN {<<p.lon, p.lat, p.alt>> : p \in Lattice}
  ELSE {<<p.lon, p.lat>> : p \in {q \in Lattice : q.alt = 0}}

\* the point of row ix: the Dimensions columns given, the others set to 0
RowPoint(row, Dimensions) ==
  [lon |-> row[1], lat |-> row[2], alt |-> IF Dimensions >= 3 THEN row[3] ELSE 0]

\* the value an insert leaves with the point: insert<Dimensions> hands the base
\* class the ECEF point alone, so what is stored does not depend on values(ix)
UnsetValue == 0
InsertedValues(supplied) == Values \cup {UnsetValue}

\* geometry::RTree::packing(points): the tree is rebuilt from points alone.  The
\* layout the tree gives to its leaves is not specified: it is taken in the order
\* of points, and Packing draws points in every order.
BasePacking(points) == points

\* geometry::RTree::insert(value): one more leaf, anywhere in the layout
BaseInsert(t, leaf) ==
  {SubSeq(t, 1, i - 1) \o <<leaf>> \o SubSeq(t, i, Len(t)) : i \in 1..(Len(t) + 1)}

\* packing<Dimensions>: the vector of (ECEF point, value) pairs handed to the base class
PackingPoints(coordinates, values, Dimensions) ==
  [ix \in 1..Len(coordinates) |->
     [ecef |-> LlaToEcef(RowPoint(coordinates[ix], Dimensions)), value |-> values[ix]]]

\* boost::geometry::index::nearest(e, k): the indices of the min(k, n) leaves
\* nearest to e in Cartesian space, closest first; ties go by the tree's layout
NearestK(t, e, k) ==
  LET Before(i, j) == \/ Dist2(t[i].ecef, e) < Dist2(t[j].ecef, e)
                      \/ Dist2(t[i].ecef, e) = Dist2(t[j].ecef, e) /\ i < j
      Rank(i) == Cardinality({j \in 1..Len(t) : Before(j, i)})
  IN  [p \in 1..Min2(k, Len(t)) |-> CHOOSE i \in 1..Len(t) : Rank(i) = p - 1]

\* the (distance, value) pair emitted for a leaf: the haversine distance between
\* the target and the leaf's position converted back to LLA
QueryResult(point, leaf) ==
  [dist |-> Haversine(point, EcefToLla(leaf.ecef)), value |-> leaf.value]

\* (mutant) the target is handed to the index as it is, not converted to ECEF
RTreeQuery_NoConversion(t, point, k) ==
  LET near == NearestK(t, [x |-> point.lon, y |-> point.lat, z |-> point.alt], k)
  IN  [j \in 1..Len(near) |-> QueryResult(point, t[near[j]])]

\* RTree::query(point, k)
RTreeQuery(t, point, k) ==
  LET near == NearestK(t, LlaToEcef(point), k)
  IN  [j \in 1..Len(near) |-> QueryResult(point, t[near[j]])]

\* (mutant) boost::geometry::within in place of covered_by: the borders are out
CoveredByEnvelope_Strict(e, points) ==
  /\ points # {}
  /\ SetMin({q.x : q \in points}) < e.x /\ e.x < SetMax({q.x : q \in points})
  /\ SetMin({q.y : q \in points}) < e.y /\ e.y < SetMax({q.y : q \in points})
  /\ SetMin({q.z : q \in points}) < e.z /\ e.z < SetMax({q.z : q \in points})

\* boost::geometry::covered_by(e, return_envelope(points)): e lies in the
\* axis-aligned box of the points, borders included; nothing is in the envelope of no point
CoveredByEnvelope(e, points) ==
  /\ points # {}
  /\ SetMin({q.x : q \in points}) <= e.x /\ e.x <= SetMax({q.x : q \in points})
  /\ SetMin({q.y : q \in points}) <= e.y /\ e.y <= SetMax({q.y : q \in points})
  /\ SetMin({q.z : q \in points}) <= e.z /\ e.z <= SetMax({q.z : q \in points})

\* RTree::query_within(point, k)
RTreeQueryWithin(t, point, k) ==
  LET near == NearestK(t, LlaToEcef(point), k)
      ecef == {t[near[j]].ecef : j \in 1..Len(near)}
      result == [j \in 1..Len(near) |-> QueryResult(point, t[near[j]])]
  IN  IF CoveredByEnvelope(LlaToEcef(point), ecef) THEN result ELSE <<>>

\* the body of the loop of query<Dimensions> for one row of the coordinates:
\* the neighbours found, then -1 in the slots left
QueryRow(t, row, Dimensions, k, within) ==
  LET point == RowPoint(row, Dimensions)
      nearest == IF within THEN RTreeQueryWithin(t, point, k) ELSE RTreeQuery(t, point, k)
  IN  [dist  |-> [jx \in 1..k |-> IF jx <= Len(nearest) THEN nearest[jx].dist ELSE -1],
       value |-> [jx \in 1..k |-> IF jx <= Len(nearest) THEN nearest[jx].value ELSE -1]]

\* the radii handed to query_ball: the distances between lattice points, and
\* one kilometre more
Radii == {Haversine(p, q) + d : p \in Lattice, q \in Lattice, d \in {0, 1}}

\* RTree::query_ball(point, radius): the leaves that satisfy
\* distance(ecef_to_lla(item.first), point, strategy_) < radius, in the order of
\* the tree
RTreeQueryBall(t, point, radius) ==
  LET Satisfies(i) == Haversine(EcefToLla(t[i].ecef), point) < radius
      RECURSIVE visit(_)
      visit(i) == IF i > Len(t) THEN <<>>
                  ELSE IF Satisfies(i) THEN <<QueryResult(point, t[i])>> \o visit(i + 1)
                  ELSE visit(i + 1)
  IN  visit(1)

\* a Coordinate (floating point) of equatorial_bounds: <<inf, v, tiny>> stands
\* for v, for the largest finite value when inf = 1 and for v plus the smallest
\* positive normal value when tiny = 1; the order is the lexicographic one
Num(v) == <<0, v, 0>>
\* std::numeric_limits<Coordinate>::max()
NumericLimitsMax == <<1, 0, 0>>
\* std::numeric_limits<Coordinate>::min(): for a floating point type the
\* smallest positive normal value, not the lowest one
NumericLimitsMin == <<0, 0, 1>>
Less(a, b) ==
  \/ a[1] < b[1]
  \/ a[1] = b[1] /\ a[2] < b[2]
  \/ a[1] = b[1] /\ a[2] = b[2] /\ a[3] < b[3]
\* std::min(a, b), std::max(a, b)
StdMin(a, b) == IF Less(b, a) THEN b ELSE a
StdMax(a, b) == IF Less(a, b) THEN b ELSE a

\* RTree::equatorial_bounds(): no box for an empty tree, else the corners
\* folded over the leaves from max() and min()
EquatorialBounds(t) ==
  LET RECURSIVE for_each(_, _)
      for_each(i, b) ==
        IF i > Len(t) THEN b
        ELSE LET lla == EcefToLla(t[i].ecef)
             IN for_each(i + 1,
                  [x0 |-> StdMin(b.x0, Num(lla.lon)), x1 |-> StdMax(b.x1, Num(lla.lon)),
                   y0 |-> StdMin(b.y0, Num(lla.lat)), y1 |-> StdMax(b.y1, Num(lla.lat)),
                   z0 |-> StdMin(b.z0, Num(lla.alt)), z1 |-> StdMax(b.z1, Num(lla.alt))])
      b == for_each(1, [x0 |-> NumericLimitsMax, x1 |-> NumericLimitsMin,
                        y0 |-> NumericLimitsMax, y1 |-> NumericLimitsMin,
                        z0 |-> NumericLimitsMax, z1 |-> NumericLimitsMin])
  IN  IF t = <<>> THEN [empty |-> TRUE]
      ELSE [empty |-> FALSE, min_corner |-> <<b.x0, b.y0, b.z0>>,
            max_corner |-> <<b.x1, b.y1, b.z1>>]

NoCall == [name |-> "none"]
NoLoad == [name |-> "none"]

\* the last call of packing or insert threw (the model follows a behaviour up
\* to the first call that throws)
Rejected == loaded.name # "none" /\ loaded.raised

\* the numbers of columns of the matrices handed to packing and insert
Columns == 1..4

\* (mutant) the number of columns is not looked at
ShapeError_RowsOnly(rows, cols, size) == rows # size

\* the checks of packing and insert: std::invalid_argument when the rows are
\* not as many as the values, or the columns neither 2 nor 3
ShapeError(rows, cols, size) == rows # size \/ cols \notin {2, 3}

\* RTree::packing(coordinates, values).  (query is const: the model follows a
\* behaviour up to its first query, which reaches every tree with every query.)
Packing ==
  /\ lastQuery = NoCall /\ ~Rejected
  /\ \E cols \in Columns, rows \in 0..MaxPoints, size \in 0..MaxPoints :
       IF ShapeError(rows, cols, size)
       THEN /\ loaded' = [name |-> "packing", rows |-> rows, cols |-> cols, size |-> size,
                          raised |-> TRUE, before |-> tree]
            /\ UNCHANGED <<tree, stored, lastQuery>>
       ELSE LET Dimensions == cols IN
            \E coordinates \in [1..rows -> Rows(Dimensions)], values \in [1..size -> Values] :
              /\ tree' = BasePacking(PackingPoints(coordinates, values, Dimensions))
              /\ stored' = SeqToBag(PackingPoints(coordinates, values, Dimensions))
              /\ lastQuery' = NoCall
              /\ loaded' = [name |-> "packing", rows |-> rows, cols |-> cols, size |-> size,
                            raised |-> FALSE, before |-> <<>>]
  /\ UNCHANGED <<parVars, poiVars, gridVars, axisVars, binVars, loessVars, linearVars>>

\* RTree::insert(coordinates, values): the shapes are checked, then the rows
\* are inserted one by one; the matrices accepted here have one row (the loop
\* of insert<Dimensions> repeats the step for every row)
Insert ==
  /\ lastQuery = NoCall /\ ~Rejected
  /\ \E cols \in Columns, rows \in 0..MaxPoints, size \in 0..MaxPoints :
       IF ShapeError(rows, cols, size)
       THEN /\ loaded' = [name |-> "insert", rows |-> rows, cols |-> cols, size |-> size,
                          raised |-> TRUE, before |-> tree]
            /\ UNCHANGED <<tree, stored, lastQuery>>
       ELSE LET Dimensions == cols IN
            /\ rows = 1
            /\ Len(tree) < MaxPoints
            /\ \E row \in Rows(Dimensions), value \in Values :
                 \E kept \in InsertedValues(value) :
                   \E t \in BaseInsert(tree, [ecef |-> LlaToEcef(RowPoint(row, Dimensions)), value |-> kept]) :
                     /\ tree' = t
                     /\ stored' = stored (+) SetToBag({[ecef |-> LlaToEcef(RowPoint(row, Dimensions)),
                                                        value |-> value]})
                     /\ lastQuery' = NoCall
                     /\ loaded' = [name |-> "insert", rows |-> rows, cols |-> cols, size |-> size,
                                   raised |-> FALSE, before |-> <<>>]
  /\ UNCHANGED <<parVars, poiVars, gridVars, axisVars, binVars, loessVars, linearVars>>

\* RTree::query(coordinates, k, within, num_threads) for a matrix of one row
Query ==
  /\ lastQuery = NoCall /\ ~Rejected
  /\ \E Dimensions \in {2, 3}, k \in 1..MaxK, within \in BOOLEAN :
    \E row \in Rows(Dimensions) :
      /\ lastQuery' = [name |-> "query", point |-> RowPoint(row, Dimensions), k |-> k,
                       within |-> within,
                       row |-> QueryRow(tree, row, Dimensions, k, within)]
      /\ UNCHANGED <<tree, stored, loaded, parVars, poiVars, gridVars, axisVars, binVars, loessVars, linearVars>>

\* RTree::query_ball(point, radius)
QueryBall ==
  /\ lastQuery = NoCall /\ ~Rejected
  /\ \E Dimensions \in {2, 3}, radius \in Radii :
    \E row \in Rows(Dimensions) :
      /\ lastQuery' = [name |-> "query_ball", point |-> RowPoint(row, Dimensions),
                       radius |-> radius,
                       result |-> RTreeQueryBall(tree, RowPoint(row, Dimensions), radius)]
      /\ UNCHANGED <<tree, stored, loaded, parVars, poiVars, gridVars, axisVars, binVars, loessVars, linearVars>>

\* RTree::equatorial_bounds()
Bounds ==
  /\ lastQuery = NoCall /\ ~Rejected
  /\ lastQuery' = [name |-> "equatorial_bounds", box |-> EquatorialBounds(tree)]
  /\ UNCHANGED <<tree, stored, loaded, parVars, poiVars, gridVars, axisVars, binVars, loessVars, linearVars>>

NoGrid == [dim |-> 0]
TreeIdle == tree = <<>> /\ stored = EmptyBag /\ lastQuery = NoCall /\ loaded = NoLoad
PoiIdle ==
  /\ grid = <<>> /\ grid0 = <<>> /\ mask = {} /\ prm = <<>> /\ ppc = "start"
  /\ iteration = 0 /\ max_residual = 0
  /\ wpos = <<>> /\ wres = <<>> /\ access = <<>> /\ residuals = <<>>
GridIdle == built = NoGrid /\ ctor = [name |-> "none"]
AxisIdle ==
  /\ axis = [points |-> <<>>] /\ orig = [points |-> <<>>] /\ chain = [points |-> <<>>]
  /\ aliased = TRUE /\ flips = 0 /\ inplaces = 0 /\ found = [name |-> "none"]
BinIdle == bcfg = <<>> /\ bins = <<>> /\ pushed = [name |-> "none"] /\ merged = [name |-> "none"]
LoessIdle == lin = <<>> /\ lout = <<>> /\ lcur = <<>> /\ lpc = "start"
LinearIdle == interp = <<>>
OthersIdle == AxisIdle /\ BinIdle /\ LoessIdle /\ LinearIdle
ParIdle ==
  /\ op = "none" /\ args = <<>> /\ pc = "idle"
  /\ wcur = <<>> /\ wend = <<>> /\ wstate = <<>>
  /\ except = 0 /\ out = <<>> /\ nwrites = <<>> /\ threw = {}

TreeInit == TreeIdle /\ ParIdle /\ PoiIdle /\ GridIdle /\ OthersIdle
TreeNext == Packing \/ Insert \/ Query \/ QueryBall \/ Bounds
SpecTree == TreeInit /\ [][TreeNext]_vars

----------------------------------------------------------------------------
(* The vectorized operations and their worker threads *)

Operations ==
  {"spline", "spline_3d", "spline_4d", "query", "covered_by",
   "set_zonal_average", "poisson_grid_fill", "loess"}
Splines == {"spline", "spline_3d", "spline_4d"}

\* after the workers have joined: if (except != nullptr) std::rethrow_exception(except).
\* loess returns its result without looking at except.
Rethrows(o) ==
  CASE o \in Splines -> TRUE
    [] o = "query" -> TRUE
    [] o = "covered_by" -> TRUE
    [] o = "set_zonal_average" -> TRUE
    [] o = "poisson_grid_fill" -> TRUE
    [] o = "loess" -> FALSE

\* detail::dispatch(worker, size, num_threads): worker w of T gets the range
\* [w * (size / T), (w + 1) * (size / T)), the last one up to size
Dispatch(size, T) ==
  [w \in 1..T |->
     [start |-> (w - 1) * (size \div T),
      end   |-> IF w = T THEN size ELSE w * (size \div T)]]

\* the thread launch of poisson_grid_fill: one call of worker(0, y_size) when
\* num_threads is 1; else shift = y_size / num_threads rows for each thread but
\* the last, which gets [start, y_size - 1)
PoissonStrips(y_size, T) ==
  [w \in 1..T |->
     [start |-> (w - 1) * (y_size \div T),
      end   |-> IF w = T THEN (IF T = 1 THEN y_size ELSE y_size - 1)
                         ELSE w * (y_size \div T)]]

Ranges(o, size, T) == IF o = "poisson_grid_fill" THEN PoissonStrips(size, T) ELSE Dispatch(size, T)

\* the tree the vectorized queries of the model run on
QueriedTree ==
  PackingPoints(<< <<0, 0, 10000>>, <<90, 0, 0>> >>, <<1, 2>>, 3)

\* the box of the model
BoxMin == [lon |-> -10, lat |-> -10]
BoxMax == [lon |-> 10, lat |-> 10]

\* Box::covered_by(point): inside the box or on its border
BoxCoveredBy(lon, lat) ==
  IF BoxMin.lon <= lon /\ lon <= BoxMax.lon /\ BoxMin.lat <= lat /\ lat <= BoxMax.lat
  THEN 1 ELSE 0

\* the X axis of the grid the splines of the model read: 0, 1, 2, not a circle
InDomain(x) == 0 <= x /\ x <= 2

\* load_frame(grid, xi, yi, boundary, bounds_error, frame): TRUE when the frame
\* is loaded, FALSE when the target is out of the domain and bounds_error is off
\* (with bounds_error on it throws: see Faults)
LoadFrame(x) == InDomain(x)

NaN == <<"nan">>
Unset == <<>>

\* the inputs element ix can be: an X coordinate for the grids, a row for the tree
ElementInputs(o) ==
  CASE o \in Splines -> {1, 7}
    [] o = "query" -> {<<0, 0>>, <<90, 0>>}
    [] o = "covered_by" -> {<<0, 0>>, <<90, 0>>}
    [] OTHER -> {0}

\* the value a worker computes for index ix (ix counts from 0)
Element(o, a, ix) ==
  CASE o \in Splines ->
         IF LoadFrame(a.in[ix + 1]) THEN <<"interpolate", a.in[ix + 1]>> ELSE NaN
    [] o = "query" -> LET r == QueryRow(QueriedTree, a.in[ix + 1], 2, a.k, a.flag)
                      IN  <<r.dist, r.value>>
    [] o = "covered_by" -> <<BoxCoveredBy(a.in[ix + 1][1], a.in[ix + 1][2])>>
    [] OTHER -> <<o, ix>>

\* (mutant) bounds_error is not looked at
Faults_BoundsErrorIgnored(o, a) == a.fault

\* the indices at which the computation of the element throws: the targets out
\* of the domain when bounds_error is on, and the fault of the call (an
\* allocation that fails, ...)
Faults(o, a) ==
  a.fault \cup (IF o \in Splines /\ a.flag
                THEN {ix \in 0..(a.size - 1) : ~LoadFrame(a.in[ix + 1])} ELSE {})

\* (mutant) the worker indexes the output from the start of its own range
ResultIndex_Local(ix, start) == ix - start

\* _result(ix) = ..., distance(ix, jx) = ...: the element of the output written for index ix
ResultIndex(ix, start) == ix

Workers == DOMAIN wstate

\* the output of the call made with num_threads = 1: worker(0, size)
SingleThreadResult(o, a) == [ix \in 0..(a.size - 1) |-> Element(o, a, ix)]

\* what is wrong with the arguments of a spline: the shapes of the coordinate
\* arrays (check_array_ndim, check_ndarray_shape) or the fitting model (interp_type)
Validations == {"none", "shape", "fitting_model"}

\* the call: the arrays are checked, the output allocated and the threads
\* launched; a worker whose prologue throws runs whatever its range
Call ==
  /\ pc = "idle"
  /\ \E o \in Operations, T \in 1..MaxThreads, size \in 0..MaxSize, flag \in BOOLEAN, k \in 1..MaxK,
        invalid \in Validations :
       \E in \in [1..size -> ElementInputs(o)], fault \in {{}} \cup {{ix} : ix \in 0..(size - 1)} :
         LET r == Ranges(o, size, T) IN
         /\ (o # "query") => k = 1
         /\ (o \notin Splines \cup {"query"}) => ~flag
         /\ (o \notin Splines) => invalid = "none"
         /\ (invalid # "none") => fault = {}
         /\ op' = o
         /\ args' = [size |-> size, T |-> T, in |-> in, flag |-> flag, k |-> k, fault |-> fault,
                     invalid |-> invalid]
         /\ except' = 0
         /\ threw' = {}
         /\ IF invalid = "shape"
            THEN /\ wcur' = <<>> /\ wend' = <<>> /\ wstate' = <<>>
                 /\ out' = <<>> /\ nwrites' = <<>>
                 /\ pc' = "raised"
            ELSE /\ wcur' = [w \in 1..T |-> r[w].start]
                 /\ wend' = [w \in 1..T |-> r[w].end]
                 /\ wstate' = [w \in 1..T |->
                                IF r[w].start < r[w].end \/ invalid = "fitting_model"
                                THEN "running" ELSE "finished"]
                 /\ out' = [ix \in 0..(size - 1) |-> Unset]
                 /\ nwrites' = [ix \in 0..(size - 1) |-> 0]
                 /\ pc' = "running"
  /\ UNCHANGED <<treeVars, poiVars, gridVars, axisVars, binVars, loessVars, linearVars>>

\* one turn of worker w: its prologue (for a spline, the interpolator built
\* with interp_type(fitting_model)) and one turn of its loop, where the element
\* of index ix is computed and written; a throw leaves the try block for the
\* catch clause, which sets except
WorkerStep(w) ==
  /\ pc = "running"
  /\ wstate[w] = "running"
  /\ LET ix == wcur[w]
         start == Ranges(op, args.size, args.T)[w].start
     IN  IF args.invalid = "fitting_model" \/ ix \in Faults(op, args)
         THEN /\ except' = w
              /\ threw' = threw \cup {w}
              /\ wstate' = [wstate EXCEPT ![w] = "finished"]
              /\ UNCHANGED <<wcur, out, nwrites>>
         ELSE /\ out' = [out EXCEPT ![ResultIndex(ix, start)] = Element(op, args, ix)]
              /\ nwrites' = [nwrites EXCEPT ![ResultIndex(ix, start)] = @ + 1]
              /\ wcur' = [wcur EXCEPT ![w] = ix + 1]
              /\ wstate' = [wstate EXCEPT ![w] = IF ix + 1 < wend[w] THEN "running" ELSE "finished"]
              /\ UNCHANGED <<except, threw>>
  /\ UNCHANGED <<op, args, pc, wend, treeVars, poiVars, gridVars, axisVars, binVars, loessVars, linearVars>>

\* all the threads have joined: the exception captured is thrown again, or the
\* output returned
Join ==
  /\ pc = "running"
  /\ \A w \in Workers : wstate[w] = "finished"
  /\ pc' = IF Rethrows(op) /\ except # 0 THEN "raised" ELSE "returned"
  /\ UNCHANGED <<op, args, wcur, wend, wstate, except, out, nwrites, threw, treeVars, poiVars, gridVars, axisVars, binVars, loessVars, linearVars>>

ParInit == ParIdle /\ TreeIdle /\ PoiIdle /\ GridIdle /\ OthersIdle
ParNext == Call \/ (\E w \in Workers : WorkerStep(w)) \/ Join
SpecPar == ParInit /\ [][ParNext]_vars

----------------------------------------------------------------------------
(* fill::poisson and detail::poisson_grid_fill.  A grid value is a multiple
   of 1 / Scale held as an integer, so that the sums, the products by 0.25
   and by the relaxation constant are the exact values the doubles take. *)

Scale == 2^26

\* the grids handed to fill::poisson: shape, NaN cells and, in units, the
\* defined values
CentreHole ==
  [x_size |-> 3, y_size |-> 3, nan |-> {<<1, 1>>},
   v |-> [c \in (0..2) \X (0..2) |-> 1]]
RowsOfHoles ==
  [x_size |-> 2, y_size |-> 3, nan |-> {<<0, 0>>, <<1, 0>>, <<1, 1>>},
   v |-> [c \in (0..1) \X (0..2) |-> IF c = <<0, 1>> THEN 1 ELSE 0]]
NoHole ==
  [x_size |-> 2, y_size |-> 2, nan |-> {},
   v |-> [c \in (0..1) \X (0..1) |-> 1]]
LastRowHole ==
  [x_size |-> 3, y_size |-> 3, nan |-> {<<1, 1>>, <<0, 2>>},
   v |-> [c \in (0..2) \X (0..2) |-> IF c[2] = 2 THEN 0 ELSE 1]]
SingleRow ==
  [x_size |-> 2, y_size |-> 1, nan |-> {<<0, 0>>},
   v |-> [c \in (0..1) \X (0..0) |-> 1]]
SingleColumn ==
  [x_size |-> 1, y_size |-> 2, nan |-> {<<0, 0>>},
   v |-> [c \in (0..0) \X (0..1) |-> 1]]
PoissonGrids == {CentreHole, RowsOfHoles, NoHole, LastRowHole, SingleRow, SingleColumn}

\* what a read outside the matrix can give, in units
Garbage == {0, 1}

FirstGuess == {"kZero", "kZonalAverage"}
One == [num |-> 1, den |-> 1]
Relaxations == {One, [num |-> 1, den |-> 2]}
\* epsilon, in units of 1 / Scale: 1e-9 is below one unit, so that a residual
\* is less than it exactly when it is less than 1 unit
Epsilon1e9 == [units |-> 1]
Epsilons == {Epsilon1e9, [units |-> Scale \div 4]}

Cells(in) == (0..(in.x_size - 1)) \X (0..(in.y_size - 1))

\* grid.hasNaN()
HasNaN(in) == in.nan # {}

\* mask = grid.array().isNaN()
IsNaN(in) == in.nan

\* the defined values of the grid handed in
Defined(in) == [c \in Cells(in) \ in.nan |-> in.v[c] * Scale]

\* (mutant) every cell is set to zero
SelectZero_Everywhere(in) == [c \in Cells(in) |-> 0]

\* case kZero: grid = mask.select(0, grid)
SelectZero(in) ==
  [c \in Cells(in) |-> IF c \in in.nan THEN 0 ELSE Defined(in)[c]]

\* set_zonal_average: a masked cell of the column iy takes the mean of the
\* defined cells of that column, or zero when there is none
SetZonalAverage(in) ==
  LET defined(iy) == {ix \in 0..(in.x_size - 1) : <<ix, iy>> \notin in.nan}
      RECURSIVE sum(_, _)
      sum(S, iy) == IF S = {} THEN 0
                    ELSE LET ix == CHOOSE i \in S : TRUE
                         IN Defined(in)[<<ix, iy>>] + sum(S \ {ix}, iy)
      first_guess(iy) == IF defined(iy) # {}
                         THEN sum(defined(iy), iy) \div Cardinality(defined(iy))
                         ELSE 0
  IN [c \in Cells(in) |-> IF c \in in.nan THEN first_guess(c[2]) ELSE Defined(in)[c]]

FirstGuessGrid(in, first_guess) ==
  IF first_guess = "kZero" THEN SelectZero(in) ELSE SetZonalAverage(in)

\* iy0 and iy1, the rows before and after the row iy: the mirror row on an edge
RowNeighbours(iy, y_size) ==
  [iy0 |-> IF iy = 0 THEN 1 ELSE iy - 1,
   iy1 |-> IF iy = y_size - 1 THEN y_size - 2 ELSE iy + 1]

\* cell_fill(ix - 1, ix, ix + 1, ..) for the columns 1 .. x_size - 2
InteriorColumn(ix) == [ix0 |-> ix - 1, ix |-> ix, ix1 |-> ix + 1]

\* cell_fill(is_circle ? x_size - 1 : 1, 0, 1, ..)
FirstColumn(x_size, is_circle) ==
  [ix0 |-> IF is_circle THEN x_size - 1 ELSE 1, ix |-> 0, ix1 |-> 1]

\* cell_fill(x_size - 2, x_size - 1, is_circle ? 0 : x_size - 2, ..)
LastColumn(x_size, is_circle) ==
  [ix0 |-> x_size - 2, ix |-> x_size - 1, ix1 |-> IF is_circle THEN 0 ELSE x_size - 2]

\* the calls of cell_fill for the row iy, in order: the masked columns of the
\* interior by increasing ix, then the column 0, then the column x_size - 1
RowCalls(m, iy, x_size, y_size, is_circle) ==
  LET S == {ix \in 1..(x_size - 2) : <<ix, iy>> \in m}
      interior == [i \in 1..Cardinality(S) |->
                     InteriorColumn(CHOOSE ix \in S : Cardinality({j \in S : j < ix}) = i - 1)]
      first == IF <<0, iy>> \in m THEN <<FirstColumn(x_size, is_circle)>> ELSE <<>>
      last == IF <<x_size - 1, iy>> \in m THEN <<LastColumn(x_size, is_circle)>> ELSE <<>>
      columns == interior \o first \o last
  IN  [i \in 1..Len(columns) |->
         [ix |-> columns[i].ix, iy |-> iy,
          n |-> [ix0 |-> columns[i].ix0, ix1 |-> columns[i].ix1,
                 iy0 |-> RowNeighbours(iy, y_size).iy0, iy1 |-> RowNeighbours(iy, y_size).iy1]]]

\* residual = (0.25 * (g(ix0, iy) + g(ix1, iy) + g(ix, iy0) + g(ix, iy1))
\*             - g(ix, iy)) * relaxation
CellResidual_Half(g, ix, iy, n, relaxation) ==
  (((g[<<n.ix0, iy>>] + g[<<n.ix1, iy>>] + g[<<ix, n.iy0>>] + g[<<ix, n.iy1>>])
    - 2 * g[<<ix, iy>>]) * relaxation.num) \div (2 * relaxation.den)

CellResidual(g, ix, iy, n, relaxation) ==
  (((g[<<n.ix0, iy>>] + g[<<n.ix1, iy>>] + g[<<ix, n.iy0>>] + g[<<ix, n.iy1>>])
    - 4 * g[<<ix, iy>>]) * relaxation.num) \div (4 * relaxation.den)

\* the cells a call of cell_fill reads
CellReads(ix, iy, n) ==
  {<<n.ix0, iy>>, <<n.ix1, iy>>, <<ix, n.iy0>>, <<ix, n.iy1>>, <<ix, iy>>}

\* worker(y_start, y_end): the calls of cell_fill for the rows of
\* [y_start, y_end), row after row
RECURSIVE StripCalls(_, _, _, _, _, _)
StripCalls(m, x_size, y_size, is_circle, y_start, y_end) ==
  IF y_start >= y_end THEN <<>>
  ELSE RowCalls(m, y_start, x_size, y_size, is_circle)
         \o StripCalls(m, x_size, y_size, is_circle, y_start + 1, y_end)

MyCalls(w) ==
  LET strip == PoissonStrips(prm.input.y_size, prm.num_threads)[w]
  IN StripCalls(mask, prm.input.x_size, prm.input.y_size, prm.is_circle, strip.start, strip.end)

\* the matrix as a call reads it: a cell outside of it gives garbage
ReadBy(g, cells, garbage) ==
  [c \in DOMAIN g \cup cells |-> IF c \in DOMAIN g THEN g[c] ELSE garbage * Scale]

\* return *std::max_element(max_residuals.begin(), max_residuals.end())
MaxElement(max_residuals) == SetMax({max_residuals[w] : w \in DOMAIN max_residuals})

\* for (it = 0; it < max_iterations; ++it) { ...; if (max_residual < epsilon) break; }
LoopContinues_Inclusive(it, residual, p) ==
  it <= p.max_iterations /\ ~(residual < p.epsilon.units)

LoopContinues(it, residual, p) ==
  it < p.max_iterations /\ ~(residual < p.epsilon.units)

NoCellFill == [ix |-> -1]
NoAccess(T) == [w \in 1..T |-> [r |-> {}, w |-> {}, n |-> 0, last |-> NoCellFill]]

\* fill::poisson up to the launch of the first sweep
Poisson ==
  /\ ppc = "start"
  /\ \E in \in PoissonGrids, first_guess \in FirstGuess, is_circle \in BOOLEAN,
        max_iterations \in 0..MaxIter, epsilon \in Epsilons,
        relaxation \in Relaxations, num_threads \in 1..MaxThreads :
       /\ prm' = [input |-> in, first_guess |-> first_guess, is_circle |-> is_circle,
                  max_iterations |-> max_iterations, epsilon |-> epsilon,
                  relaxation |-> relaxation, num_threads |-> num_threads]
       /\ mask' = IsNaN(in)
       /\ grid' = IF HasNaN(in) THEN FirstGuessGrid(in, first_guess) ELSE Defined(in)
       /\ grid0' = grid'
       /\ max_residual' = 0
       /\ residuals' = <<>>
       /\ wpos' = [w \in 1..num_threads |-> 1]
       /\ wres' = [w \in 1..num_threads |-> 0]
       /\ access' = NoAccess(num_threads)
       /\ IF HasNaN(in) /\ 0 < max_iterations
          THEN iteration' = 1 /\ ppc' = "sweep"
          ELSE iteration' = 0 /\ ppc' = "done"
  /\ UNCHANGED <<treeVars, parVars, gridVars, axisVars, binVars, loessVars, linearVars>>

\* one call of cell_fill by the worker w
CellFill(w) ==
  /\ ppc = "sweep"
  /\ wpos[w] <= Len(MyCalls(w))
  /\ LET call == MyCalls(w)[wpos[w]]
         c == <<call.ix, call.iy>>
         reads == CellReads(call.ix, call.iy, call.n)
     IN \E garbage \in (IF reads \subseteq DOMAIN grid THEN {0} ELSE Garbage) :
          LET residual == CellResidual(ReadBy(grid, reads, garbage), call.ix, call.iy,
                                       call.n, prm.relaxation)
          IN /\ grid' = [grid EXCEPT ![c] = @ + residual]
             /\ wres' = [wres EXCEPT ![w] = Max2(@, Abs(residual))]
             /\ access' = [access EXCEPT ![w].r = @ \cup reads,
                                         ![w].w = @ \cup {c},
                                         ![w].n = @ + 1,
                                         ![w].last = call]
  /\ wpos' = [wpos EXCEPT ![w] = @ + 1]
  /\ UNCHANGED <<grid0, mask, prm, ppc, iteration, max_residual, residuals,
                 treeVars, parVars, gridVars, axisVars, binVars, loessVars, linearVars>>

\* the join of a sweep, the test of the loop of fill::poisson and either the
\* launch of the next sweep or the return
JoinSweep ==
  /\ ppc = "sweep"
  /\ \A w \in DOMAIN wpos : wpos[w] > Len(MyCalls(w))
  /\ max_residual' = MaxElement(wres)
  /\ residuals' = Append(residuals, max_residual')
  /\ IF LoopContinues(iteration, max_residual', prm)
     THEN /\ iteration' = iteration + 1
          /\ wpos' = [w \in DOMAIN wpos |-> 1]
          /\ wres' = [w \in DOMAIN wres |-> 0]
          /\ access' = NoAccess(prm.num_threads)
          /\ grid0' = grid
          /\ ppc' = "sweep"
     ELSE /\ ppc' = "done"
          /\ UNCHANGED <<iteration, wpos, wres, access, grid0>>
  /\ UNCHANGED <<grid, mask, prm, treeVars, parVars, gridVars, axisVars, binVars, loessVars, linearVars>>

PoissonInit == PoiIdle /\ TreeIdle /\ ParIdle /\ GridIdle /\ OthersIdle
PoissonNext == Poisson \/ (\E w \in DOMAIN wpos : CellFill(w)) \/ JoinSweep
SpecPoisson == PoissonInit /\ [][PoissonNext]_vars

----------------------------------------------------------------------------
(* The Cartesian grids: Grid2D<T, Dimension> and Grid3D<T>.  An axis is its
   length and the value array its shape. *)

AxisLengths == 1..MaxAxis
Shapes == UNION {[1..ndim -> AxisLengths] : ndim \in 1..3}
Ok == "ok"

\* array_.unchecked<Dimension>() in the initializer list: std::domain_error
\* unless the array has Dimension dimensions
Unchecked(array, Dimension) ==
  IF Len(array) = Dimension THEN Ok ELSE "domain_error"

\* check_shape(idx, axis, x, y, args...): axes holds axis and the axes of args
RECURSIVE check_shape(_, _, _)
check_shape(idx, axes, array) ==
  IF axes = <<>> THEN Ok
  ELSE IF Head(axes) # array[idx + 1] THEN "invalid_argument"
  ELSE check_shape(idx + 1, Tail(axes), array)

\* Grid2D(x, y, z): the initializer list, then check_shape(0, x_, .., y_, ..)
Grid2D(x, y, z, Dimension) ==
  IF Unchecked(z, Dimension) # Ok THEN [error |-> Unchecked(z, Dimension)]
  ELSE IF check_shape(0, <<x, y>>, z) # Ok THEN [error |-> check_shape(0, <<x, y>>, z)]
  ELSE [error |-> Ok, dim |-> Dimension, axes |-> <<x, y>>, shape |-> z]

\* Grid3D(x, y, z, u): Grid2D<T, 3>(x, y, u), then check_shape(2, z_, ..)
Grid3D_NoCheckOfZ(x, y, z, u) ==
  LET base == Grid2D(x, y, u, 3)
  IN IF base.error # Ok THEN base
     ELSE [error |-> Ok, dim |-> 3, axes |-> <<x, y, z>>, shape |-> u]

Grid3D(x, y, z, u) ==
  LET base == Grid2D(x, y, u, 3)
  IN IF base.error # Ok THEN base
     ELSE IF check_shape(2, <<z>>, u) # Ok THEN [error |-> check_shape(2, <<z>>, u)]
     ELSE [error |-> Ok, dim |-> 3, axes |-> <<x, y, z>>, shape |-> u]

\* the states handed to setstate: the axes, then the array
States == {[axes |-> axes, array |-> array] :
             axes \in [1..2 -> AxisLengths] \cup [1..3 -> AxisLengths], array \in Shapes}
TupleSize(state) == Len(state.axes) + 1

\* Grid2D::setstate(tuple)
Grid2DSetState(state) ==
  IF TupleSize(state) # 3 THEN [error |-> "runtime_error"]
  ELSE Grid2D(state.axes[1], state.axes[2], state.array, 2)

\* Grid3D::setstate(tuple)
Grid3DSetState(state) ==
  IF TupleSize(state) # 4 THEN [error |-> "runtime_error"]
  ELSE Grid3D(state.axes[1], state.axes[2], state.axes[3], state.array)

\* the grid a construction leaves: none when it threw
Constructed(result) ==
  IF result.error = Ok THEN [dim |-> result.dim, axes |-> result.axes, shape |-> result.shape]
  ELSE NoGrid

NewGrid2D ==
  /\ ctor.name = "none"
  /\ \E x, y \in AxisLengths, z \in Shapes :
       /\ ctor' = [name |-> "Grid2D", dim |-> 2, axes |-> <<x, y>>, array |-> z,
                   error |-> Grid2D(x, y, z, 2).error]
       /\ built' = Constructed(Grid2D(x, y, z, 2))
  /\ UNCHANGED <<treeVars, parVars, poiVars, axisVars, binVars, loessVars, linearVars>>

NewGrid3D ==
  /\ ctor.name = "none"
  /\ \E x, y, z \in AxisLengths, u \in Shapes :
       /\ ctor' = [name |-> "Grid3D", dim |-> 3, axes |-> <<x, y, z>>, array |-> u,
                   error |-> Grid3D(x, y, z, u).error]
       /\ built' = Constructed(Grid3D(x, y, z, u))
  /\ UNCHANGED <<treeVars, parVars, poiVars, axisVars, binVars, loessVars, linearVars>>

SetState2D ==
  /\ ctor.name = "none"
  /\ \E state \in States :
       /\ ctor' = [name |-> "Grid2D::setstate", dim |-> 2, axes |-> state.axes,
                   array |-> state.array, error |-> Grid2DSetState(state).error]
       /\ built' = Constructed(Grid2DSetState(state))
  /\ UNCHANGED <<treeVars, parVars, poiVars, axisVars, binVars, loessVars, linearVars>>

SetState3D ==
  /\ ctor.name = "none"
  /\ \E state \in States :
       /\ ctor' = [name |-> "Grid3D::setstate", dim |-> 3, axes |-> state.axes,
                   array |-> state.array, error |-> Grid3DSetState(state).error]
       /\ built' = Constructed(Grid3DSetState(state))
  /\ UNCHANGED <<treeVars, parVars, poiVars, axisVars, binVars, loessVars, linearVars>>

GridInit == GridIdle /\ TreeIdle /\ ParIdle /\ PoiIdle /\ OthersIdle
GridNext == NewGrid2D \/ NewGrid3D \/ SetState2D \/ SetState3D
SpecGrid == GridInit /\ [][GridNext]_vars

----------------------------------------------------------------------------
(* The Axis: coordinates in degrees.  An axis holds its coordinates, its
   cached direction and regularity and the circular flag; indices start
   at 0. *)

\* the period of a circular axis
Period == 360

\* the coordinates the axes of the model are made of, and the positions looked up
Coordinates == {-120, 0, 120, 180, 240}
Targets == {60 * j : j \in -6..6}

Reverse(s) == [i \in 1..Len(s) |-> s[Len(s) + 1 - i]]
Ascending(s) == \A i \in 1..(Len(s) - 1) : s[i] < s[i + 1]
Descending(s) == \A i \in 1..(Len(s) - 1) : s[i] > s[i + 1]
\* regular: all the increments are the same
Regular(s) == \A i \in 1..(Len(s) - 1) : s[i + 1] - s[i] = s[2] - s[1]
\* a circular axis covers exactly one period
CoversPeriod(s) == Regular(s) /\ Len(s) >= 2 /\ Abs(s[2] - s[1]) * Len(s) = Period

\* Axis(points, is_circle): the direction and the regularity are computed once
NewAxis(points, is_circle) ==
  [points |-> points, is_ascending |-> Ascending(points),
   is_regular |-> Regular(points), is_circle |-> is_circle]

\* the longitude axis of the documentation: Axis(arange(0, 360, 1), is_circle=True)
LongitudeAxis == NewAxis([i \in 1..Period |-> i - 1], TRUE)

\* the axes of the model: the longitude axis and every strictly monotonic
\* sequence of coordinates, circular only when it covers a period
Axes ==
  LET Monotonic == {s \in UNION {[1..n -> Coordinates] : n \in 1..MaxAxis} :
                      Ascending(s) \/ Descending(s)}
  IN  {LongitudeAxis} \cup {NewAxis(s, FALSE) : s \in Monotonic}
        \cup {NewAxis(s, TRUE) : s \in {t \in Monotonic : CoversPeriod(t)}}

Size(a) == Len(a.points)
MinValue(a) == IF a.is_ascending THEN a.points[1] ELSE a.points[Size(a)]
MaxValue(a) == IF a.is_ascending THEN a.points[Size(a)] ELSE a.points[1]

\* a circular axis reduces the coordinate modulo the period into
\* [min, min + period)
NormalizeCoordinate(a, x) ==
  IF a.is_circle THEN MinValue(a) + ((x - MinValue(a)) % Period) ELSE x

\* regular axis: i = round((x - x0) / step), the lower index on a midpoint
FindIndexRegular(a, x) ==
  IF Size(a) = 1 THEN 0
  ELSE LET step == Abs(a.points[2] - a.points[1])
           d == Abs(x - a.points[1])
       IN  IF 2 * (d % step) > step THEN d \div step + 1 ELSE d \div step

\* irregular axis: bisection, then the closest of the two neighbours, the
\* lower index when they are as close
FindIndexIrregular(a, x) ==
  (CHOOSE i \in 1..Size(a) :
     \A j \in 1..Size(a) :
       \/ Abs(x - a.points[i]) < Abs(x - a.points[j])
       \/ Abs(x - a.points[i]) = Abs(x - a.points[j]) /\ i <= j) - 1

\* (mutant) a position out of the axis gives -1 whatever bounded
FindIndex_NeverClamps(a, coordinate, bounded) ==
  LET x == NormalizeCoordinate(a, coordinate)
  IN  IF x < MinValue(a) \/ x > MaxValue(a) THEN -1
      ELSE IF a.is_regular THEN FindIndexRegular(a, x) ELSE FindIndexIrregular(a, x)

\* Axis::find_index(coordinate, bounded)
FindIndex(a, coordinate, bounded) ==
  LET x == NormalizeCoordinate(a, coordinate)
  IN  IF x < MinValue(a)
      THEN (IF bounded THEN (IF a.is_ascending THEN 0 ELSE Size(a) - 1) ELSE -1)
      ELSE IF x > MaxValue(a)
      THEN (IF bounded THEN (IF a.is_ascending THEN Size(a) - 1 ELSE 0) ELSE -1)
      ELSE IF a.is_regular THEN FindIndexRegular(a, x) ELSE FindIndexIrregular(a, x)

\* Axis::find_indexes(coordinate): the indices i0, i1 of the two neighbours
\* with points[i0] <= x <= points[i1]; out of the axis (-1, -1), or the two
\* ends when the axis is circular
FindIndexes(a, coordinate) ==
  LET x == NormalizeCoordinate(a, coordinate)
      Between == {i \in 1..(Size(a) - 1) :
                    \/ a.points[i] <= x /\ x <= a.points[i + 1]
                    \/ a.points[i + 1] <= x /\ x <= a.points[i]}
  IN  IF Between # {}
      THEN LET i == CHOOSE j \in Between : \A k \in Between : j <= k
           IN  IF a.is_ascending THEN <<i - 1, i>> ELSE <<i, i - 1>>
      ELSE IF a.is_circle
      THEN (IF a.is_ascending THEN <<Size(a) - 1, 0>> ELSE <<0, Size(a) - 1>>)
      ELSE <<-1, -1>>

\* (mutant) flip that leaves a descending axis as it is
AxisFlip_ToDescending(a) ==
  IF a.is_ascending
  THEN [a EXCEPT !.points = Reverse(a.points), !.is_ascending = ~a.is_ascending]
  ELSE a

\* Axis::flip(): reverses the stored coordinates and the cached direction
AxisFlip(a) ==
  [a EXCEPT !.points = Reverse(a.points), !.is_ascending = ~a.is_ascending]

\* Axis::getstate(), Axis::setstate(state)
AxisGetState(a) == <<a.is_circle, a.is_ascending, a.is_regular, a.points>>
AxisSetState(state) ==
  [points |-> state[4], is_ascending |-> state[2], is_regular |-> state[3],
   is_circle |-> state[1]]

NoAxis == [points |-> <<>>]
NoFind == [name |-> "none"]

\* axis = pyinterp.Axis(points, is_circle)
Construct ==
  /\ axis = NoAxis
  /\ \E a \in Axes :
       /\ axis' = a /\ orig' = a /\ chain' = a
       /\ aliased' = TRUE /\ flips' = 0 /\ inplaces' = 0
  /\ UNCHANGED <<found, treeVars, parVars, poiVars, gridVars, binVars, loessVars, linearVars>>

\* (mutant) the receiver is flipped and returned whatever inplace
Flip_AlwaysInPlace ==
  /\ axis # NoAxis
  /\ flips < MaxFlips
  /\ \E inplace \in BOOLEAN :
       /\ chain' = AxisFlip(chain)
       /\ axis' = IF aliased THEN AxisFlip(chain) ELSE axis
       /\ inplaces' = IF inplace THEN inplaces + 1 ELSE inplaces
       /\ UNCHANGED aliased
  /\ flips' = flips + 1
  /\ UNCHANGED <<orig, found, treeVars, parVars, poiVars, gridVars, binVars, loessVars, linearVars>>

\* (mutant) without inplace the copy is returned as it was made
Flip_ReturnsTheCopy ==
  /\ axis # NoAxis
  /\ flips < MaxFlips
  /\ \E inplace \in BOOLEAN :
       IF inplace
       THEN /\ chain' = AxisFlip(chain)
            /\ axis' = IF aliased THEN AxisFlip(chain) ELSE axis
            /\ inplaces' = inplaces + 1
            /\ UNCHANGED aliased
       ELSE /\ chain' = AxisSetState(AxisGetState(chain))
            /\ aliased' = FALSE
            /\ UNCHANGED <<axis, inplaces>>
  /\ flips' = flips + 1
  /\ UNCHANGED <<orig, found, treeVars, parVars, poiVars, gridVars, binVars, loessVars, linearVars>>

\* the binding of flip, called on the axis the previous call returned: with
\* inplace the receiver is flipped and returned, else a copy made by
\* setstate(getstate()) is
Flip ==
  /\ axis # NoAxis
  /\ flips < MaxFlips
  /\ \E inplace \in BOOLEAN :
       IF inplace
       THEN /\ chain' = AxisFlip(chain)
            /\ axis' = IF aliased THEN AxisFlip(chain) ELSE axis
            /\ inplaces' = inplaces + 1
            /\ UNCHANGED aliased
       ELSE /\ chain' = AxisFlip(AxisSetState(AxisGetState(chain)))
            /\ aliased' = FALSE
            /\ UNCHANGED <<axis, inplaces>>
  /\ flips' = flips + 1
  /\ UNCHANGED <<orig, found, treeVars, parVars, poiVars, gridVars, binVars, loessVars, linearVars>>

\* (mutant) the lookup is made on the axis first constructed, not on the receiver
Find_OnTheOriginal ==
  /\ axis # NoAxis
  /\ \E x \in Targets, bounded \in BOOLEAN :
       found' = [name |-> "find_index", on |-> chain, x |-> x, bounded |-> bounded,
                 index |-> FindIndex(orig, x, bounded)]
  /\ UNCHANGED <<axis, orig, chain, aliased, flips, inplaces,
                 treeVars, parVars, poiVars, gridVars, binVars, loessVars, linearVars>>

\* (mutant) the indices returned start at 1
Find_CountsFromOne ==
  /\ axis # NoAxis
  /\ \E x \in Targets, bounded \in BOOLEAN :
       found' = [name |-> "find_index", on |-> chain, x |-> x, bounded |-> bounded,
                 index |-> FindIndex(chain, x, bounded) + 1]
  /\ UNCHANGED <<axis, orig, chain, aliased, flips, inplaces,
                 treeVars, parVars, poiVars, gridVars, binVars, loessVars, linearVars>>

\* the binding of find_index, for one coordinate: the index and the axis it
\* was looked up on
Find ==
  /\ axis # NoAxis
  /\ \E x \in Targets, bounded \in BOOLEAN :
       found' = [name |-> "find_index", on |-> chain, x |-> x, bounded |-> bounded,
                 index |-> FindIndex(chain, x, bounded)]
  /\ UNCHANGED <<axis, orig, chain, aliased, flips, inplaces,
                 treeVars, parVars, poiVars, gridVars, binVars, loessVars, linearVars>>

\* the bindings of find_indexes, is_regular, is_ascending, front and back
AxisOperations == {"find_indexes", "is_regular", "is_ascending", "front", "back"}
Ask ==
  /\ axis # NoAxis
  /\ \E name \in AxisOperations, x \in Targets :
       /\ name # "find_indexes" => x = 0
       /\ found' = [name |-> name, on |-> chain, x |-> x, bounded |-> FALSE,
                    index |-> CASE name = "find_indexes" -> FindIndexes(chain, x)
                                [] name = "is_regular" -> chain.is_regular
                                [] name = "is_ascending" -> chain.is_ascending
                                [] name = "front" -> chain.points[1]
                                [] name = "back" -> chain.points[Size(chain)]]
  /\ UNCHANGED <<axis, orig, chain, aliased, flips, inplaces,
                 treeVars, parVars, poiVars, gridVars, binVars, loessVars, linearVars>>

AxisInit == AxisIdle /\ BinIdle /\ LoessIdle /\ TreeIdle /\ ParIdle /\ PoiIdle /\ GridIdle /\ LinearIdle
AxisNext == Construct \/ Flip \/ Find \/ Ask
SpecAxis == AxisInit /\ [][AxisNext]_vars

----------------------------------------------------------------------------
(* Binning: the nearest binning of samples into the cells of two axes, and
   the merge of binnings.  The sums are floating point numbers: non-negative
   integers rounded to MantissaBits significant bits. *)

RECURSIVE Pow2(_)
Pow2(n) == IF n = 0 THEN 1 ELSE 2 * Pow2(n - 1)

\* the unit in the last place of the floating point numbers around n
Ulp(n) ==
  IF n < Pow2(MantissaBits) THEN 1
  ELSE CHOOSE u \in {Pow2(e) : e \in 1..(MantissaBits + MaxPushes)} :
         Pow2(MantissaBits - 1) * u <= n /\ n < Pow2(MantissaBits) * u

\* round to nearest, ties to even
RoundToFloat(n) ==
  LET u == Ulp(n)
      q == n \div u
      r == n % u
  IN  IF 2 * r < u THEN q * u
      ELSE IF 2 * r > u THEN (q + 1) * u
      ELSE IF q % 2 = 0 THEN q * u ELSE (q + 1) * u

\* operator+ of T
FloatAdd(a, b) == RoundToFloat(a + b)

\* the samples: the value 1 and the least value that absorbs it
Big == Pow2(MantissaBits)
SampleX == {-60, 0}
SampleY == {0, 180}
SampleZ == {[nan |-> TRUE, v |-> 0], [nan |-> FALSE, v |-> 1], [nan |-> FALSE, v |-> Big]}

\* the axes of the binnings
BinXAxes == {NewAxis(<<0, 120>>, FALSE), NewAxis(<<0, 180>>, TRUE)}
BinYAxes == {NewAxis(<<0, 120>>, FALSE)}

BinCells(cfg) == (0..(Size(cfg.x) - 1)) \X (0..(Size(cfg.y) - 1))

\* Accumulators: count, sum of weights, sum, min and max of the values of a
\* cell; min and max of no value are <<>>
EmptyAccumulator == [count |-> 0, sum_of_weights |-> 0, sum |-> 0, min |-> <<>>, max |-> <<>>]

\* acc_(ix, iy)(value)
Accumulate(acc, value) ==
  [count |-> acc.count + 1,
   sum_of_weights |-> FloatAdd(acc.sum_of_weights, 1),
   sum |-> FloatAdd(acc.sum, value),
   min |-> IF acc.min = <<>> THEN <<value>> ELSE <<Min2(acc.min[1], value)>>,
   max |-> IF acc.max = <<>> THEN <<value>> ELSE <<Max2(acc.max[1], value)>>]

\* the merge of two accumulators
MergeAccumulators(a, b) ==
  [count |-> a.count + b.count,
   sum_of_weights |-> FloatAdd(a.sum_of_weights, b.sum_of_weights),
   sum |-> FloatAdd(a.sum, b.sum),
   min |-> IF a.min = <<>> THEN b.min ELSE IF b.min = <<>> THEN a.min
           ELSE <<Min2(a.min[1], b.min[1])>>,
   max |-> IF a.max = <<>> THEN b.max ELSE IF b.max = <<>> THEN a.max
           ELSE <<Max2(a.max[1], b.max[1])>>]

\* Binning2D::operator+=(other): cell by cell
BinningMerge(a, b) == [c \in DOMAIN a |-> MergeAccumulators(a[c], b[c])]

\* NearestBivariate::push, for one sample
NearestBivariatePush(cfg, acc, x, y, z) ==
  LET ix == FindIndex(cfg.x, x, TRUE)
      iy == FindIndex(cfg.y, y, TRUE)
  IN  IF ix # -1 /\ iy # -1 /\ ~z.nan
      THEN [acc EXCEPT ![<<ix, iy>>] = Accumulate(acc[<<ix, iy>>], z.v)]
      ELSE acc

\* (mutant) the loop over ix stops after the first row
NearestBivariateClear_FirstRow(acc) ==
  [c \in DOMAIN acc |-> IF c[1] = 0 THEN EmptyAccumulator ELSE acc[c]]

\* NearestBivariate::clear: acc_(ix, iy) = {} for every cell
NearestBivariateClear(acc) == [c \in DOMAIN acc |-> EmptyAccumulator]

\* boost::accumulators::mean: the sum over the count, NaN for no value
Mean(acc) == [nan |-> acc.count = 0, num |-> acc.sum, den |-> acc.count]

NoPush == [name |-> "none"]
NoMerge == [name |-> "none"]

\* three binnings on the same axes
NewBinnings ==
  /\ bcfg = <<>>
  /\ \E x \in BinXAxes, y \in BinYAxes :
       /\ bcfg' = [x |-> x, y |-> y]
       /\ bins' = [k \in 1..3 |-> [c \in BinCells([x |-> x, y |-> y]) |-> EmptyAccumulator]]
  /\ UNCHANGED <<pushed, merged, treeVars, parVars, poiVars, gridVars, axisVars, loessVars, linearVars>>

\* the number of values the binnings hold
RECURSIVE CountOver(_, _)
CountOver(acc, cells) ==
  IF cells = {} THEN 0
  ELSE LET c == CHOOSE d \in cells : TRUE
       IN  acc[c].count + CountOver(acc, cells \ {c})
Pushes == CountOver(bins[1], DOMAIN bins[1]) + CountOver(bins[2], DOMAIN bins[2])
            + CountOver(bins[3], DOMAIN bins[3])

\* bins[k].push([x], [y], [z]): the call, and the accumulators before it
Push ==
  /\ bcfg # <<>> /\ merged = NoMerge
  /\ Pushes < MaxPushes
  /\ \E k \in 1..3, x \in SampleX, y \in SampleY, z \in SampleZ :
       /\ bins' = [bins EXCEPT ![k] = NearestBivariatePush(bcfg, bins[k], x, y, z)]
       /\ pushed' = [name |-> "push", k |-> k, x |-> x, y |-> y, z |-> z, before |-> bins[k]]
  /\ UNCHANGED <<bcfg, merged, treeVars, parVars, poiVars, gridVars, axisVars, loessVars, linearVars>>

\* bins[k].clear(): the call, the accumulators and the axes before it
Clear ==
  /\ bcfg # <<>> /\ merged = NoMerge
  /\ \E k \in 1..3 :
       /\ bins' = [bins EXCEPT ![k] = NearestBivariateClear(bins[k])]
       /\ pushed' = [name |-> "clear", k |-> k, axes |-> bcfg, before |-> bins[k]]
  /\ UNCHANGED <<bcfg, merged, treeVars, parVars, poiVars, gridVars, axisVars, loessVars, linearVars>>

\* left = copy(b1); left += b2; left += b3 and
\* inner = copy(b2); inner += b3; right = copy(b1); right += inner
Merge ==
  /\ bcfg # <<>> /\ merged = NoMerge
  /\ merged' = [name |-> "merge",
                left |-> BinningMerge(BinningMerge(bins[1], bins[2]), bins[3]),
                right |-> BinningMerge(bins[1], BinningMerge(bins[2], bins[3]))]
  /\ UNCHANGED <<bcfg, bins, pushed, treeVars, parVars, poiVars, gridVars, axisVars, loessVars, linearVars>>

BinInit == BinIdle /\ AxisIdle /\ LoessIdle /\ TreeIdle /\ ParIdle /\ PoiIdle /\ GridIdle /\ LinearIdle
BinNext == NewBinnings \/ Push \/ Clear \/ Merge
SpecBin == BinInit /\ [][BinNext]_vars

----------------------------------------------------------------------------
(* fill::loess.  The grid has the X coordinates 0, 1, .. and the Y coordinates
   0, 1; a value is a fraction num / den, or NaN; an element of the result
   that was not written has den = 0. *)

Value(z) == [nan |-> FALSE, num |-> z, den |-> 1]
NotANumber == [nan |-> TRUE, num |-> 0, den |-> 1]
NotWritten == [nan |-> FALSE, num |-> 0, den |-> 0]

LoessYSize == 2
HalfWindows == {1, 2}
LoessCells(x_size) == (0..(x_size - 1)) \X (0..(LoessYSize - 1))
LoessGrids ==
  UNION {[LoessCells(x_size) -> {NotANumber, Value(1), Value(2)}] : x_size \in 2..MaxRows}
XSize(g) == Cardinality({c[1] : c \in DOMAIN g})

\* Axis::find_indexes(x): the bracketing pair of a coordinate of the axis
\* (index i of an axis of len coordinates)
Bracket(i, len) == IF i = len - 1 THEN <<i - 1, i>> ELSE <<i, i + 1>>

\* Axis::find_indexes(x, n, kSym): the 2 n indices around the bracketing pair,
\* mirrored at the ends of the axis
FindIndexesSym(i, n, len) ==
  [j \in 1..(2 * n) |->
     IF j <= n
     THEN LET before == Bracket(i, len)[1] - (n - j)
          IN  IF before < 0 THEN (-before) % len ELSE before
     ELSE LET after == Bracket(i, len)[2] + (j - n - 1)
          IN  IF after >= len THEN len - 2 - ((after - len) % len) ELSE after]

\* the tri-cube weight pow(1 - pow(d, 3), 3) of the distance d, in 512ths,
\* from q = 4 d^2 (d <= 1 when q <= 4)
TriCube(q) ==
  CASE q = 0 -> 512
    [] q = 1 -> 343
    [] q = 2 -> 138
    [] q = 3 -> 22
    [] OTHER -> 0

\* wi for the sample (wx, wy) of the window of (ix, iy): the coordinates are
\* the indices, and 2 / nx, 2 / ny are integers
SampleWeight(ix, iy, wx, wy, nx, ny) ==
  TriCube(((wx - ix) * (2 \div nx)) * ((wx - ix) * (2 \div nx))
          + ((wy - iy) * (2 \div ny)) * ((wy - iy) * (2 \div ny)))

\* the samples of the window: every (wx, wy) of x_frame and y_frame, in order
WindowSamples(g, ix, iy, nx, ny) ==
  LET x_frame == FindIndexesSym(ix, nx, XSize(g))
      y_frame == FindIndexesSym(iy, ny, LoessYSize)
  IN  [j \in 1..(Len(x_frame) * Len(y_frame)) |->
         <<x_frame[((j - 1) \div Len(y_frame)) + 1], y_frame[((j - 1) % Len(y_frame)) + 1]>>]

\* value += wi * zi; weight += wi over the samples that are not NaN
RECURSIVE Accumulated(_, _, _, _, _, _)
Accumulated(g, ix, iy, nx, ny, samples) ==
  IF samples = <<>> THEN [value |-> 0, weight |-> 0]
  ELSE LET s == Head(samples)
           rest == Accumulated(g, ix, iy, nx, ny, Tail(samples))
           wi == SampleWeight(ix, iy, s[1], s[2], nx, ny)
       IN  IF g[s].nan THEN rest
           ELSE [value |-> rest.value + wi * g[s].num, weight |-> rest.weight + wi]

\* the value written to _result(ix, iy)
LoessCell(g, ix, iy, nx, ny) ==
  IF g[<<ix, iy>>].nan
  THEN LET a == Accumulated(g, ix, iy, nx, ny, WindowSamples(g, ix, iy, nx, ny))
       IN  IF a.weight # 0 THEN [nan |-> FALSE, num |-> a.value, den |-> a.weight]
           ELSE g[<<ix, iy>>]
  ELSE g[<<ix, iy>>]

\* the cells of row ix written before find_indexes throws at the first NaN
\* cell: all of them when nothing throws
WrittenInRow(g, ix, throws) ==
  {iy \in 0..(LoessYSize - 1) :
     ~throws \/ \A jy \in 0..iy : ~g[<<ix, jy>>].nan}

\* loess(grid, nx, ny, num_threads): the result is allocated and the rows
\* dispatched; throws tells whether the allocation of a window fails
Loess ==
  /\ lpc = "start"
  /\ \E g \in LoessGrids, nx \in HalfWindows, ny \in HalfWindows, T \in 1..MaxThreads,
        throws \in BOOLEAN :
       LET r == Dispatch(XSize(g), T) IN
       /\ lin' = [grid |-> g, given |-> g, nx |-> nx, ny |-> ny, T |-> T, throws |-> throws]
       /\ lout' = [c \in DOMAIN g |-> NotWritten]
       /\ lcur' = [w \in 1..T |-> [ix |-> r[w].start, end |-> r[w].end, raised |-> FALSE]]
       /\ lpc' = "running"
  /\ UNCHANGED <<treeVars, parVars, poiVars, gridVars, axisVars, binVars, linearVars>>

\* worker w fills the row ix of the result; a throw ends the worker
LoessRow(w) ==
  /\ lpc = "running"
  /\ lcur[w].ix < lcur[w].end /\ ~lcur[w].raised
  /\ LET ix == lcur[w].ix
         written == WrittenInRow(lin.grid, ix, lin.throws)
     IN  /\ lout' = [c \in DOMAIN lout |->
                       IF c[1] = ix /\ c[2] \in written
                       THEN LoessCell(lin.grid, ix, c[2], lin.nx, lin.ny)
                       ELSE lout[c]]
         /\ lcur' = [lcur EXCEPT ![w] =
                       IF Cardinality(written) = LoessYSize
                       THEN [@ EXCEPT !.ix = ix + 1]
                       ELSE [@ EXCEPT !.raised = TRUE]]
  /\ UNCHANGED <<lin, lpc, treeVars, parVars, poiVars, gridVars, axisVars, binVars, linearVars>>

\* the workers have joined: the result is returned, except is not looked at
LoessReturn ==
  /\ lpc = "running"
  /\ \A w \in DOMAIN lcur : lcur[w].ix = lcur[w].end \/ lcur[w].raised
  /\ lpc' = "returned"
  /\ UNCHANGED <<lin, lout, lcur, treeVars, parVars, poiVars, gridVars, axisVars, binVars, linearVars>>

LoessInit == LoessIdle /\ AxisIdle /\ BinIdle /\ TreeIdle /\ ParIdle /\ PoiIdle /\ GridIdle /\ LinearIdle
LoessNext == Loess \/ (\E w \in DOMAIN lcur : LoessRow(w)) \/ LoessReturn
SpecLoess == LoessInit /\ [][LoessNext]_vars

----------------------------------------------------------------------------
(* detail::math::linear, in floating point.  A number is an integer count of
   Unit-ths, and a floating point number has MantissaBits significant bits:
   each operation rounds its exact result to the nearest one, ties to even. *)

FracBits == 3
Unit == Pow2(FracBits)

\* the floating point number nearest to a / b Unit-ths (a >= 0, b > 0)
RoundRatio(a, b) ==
  LET u == CHOOSE w \in {Pow2(e) : e \in 0..(2 * (MantissaBits + FracBits))} :
             /\ a < Pow2(MantissaBits) * w * b
             /\ w = 1 \/ a >= Pow2(MantissaBits - 1) * w * b
      q == a \div (b * u)
      r == a % (b * u)
  IN  IF 2 * r < b * u THEN q * u
      ELSE IF 2 * r > b * u THEN (q + 1) * u
      ELSE IF q % 2 = 0 THEN q * u ELSE (q + 1) * u

\* the operators -, *, / and + of U
Minus(a, b) == Sign(a - b) * RoundRatio(Abs(a - b), 1)
Times(a, b) == Sign(a * b) * RoundRatio(Abs(a * b), Unit)
Over(a, b) == Sign(a * b) * RoundRatio(Abs(a) * Unit, Abs(b))
Plus(a, b) == Sign(a + b) * RoundRatio(Abs(a + b), 1)

\* return t * y0 + u * y1 / (t + u): the value is not finite when t + u is 0
linear(x, x0, x1, y0, y1) ==
  LET dx == Minus(x1, x0)
      t == Over(Minus(x1, x), dx)
      u == Over(Minus(x, x0), dx)
  IN  IF Plus(t, u) = 0 THEN [finite |-> FALSE, v |-> 0]
      ELSE [finite |-> TRUE, v |-> Plus(Times(t, y0), Over(Times(u, y1), Plus(t, u)))]

\* the coordinates and the values given to linear, in Unit-ths
LinearCoordinates == {0, 3, 5, 6, 7, 12, 24}
LinearValues == {Unit, 2 * Unit, 3 * Unit}

\* a call of linear with x0 != x1
Linear ==
  /\ interp = <<>>
  /\ \E x, x0, x1 \in LinearCoordinates, y0, y1 \in LinearValues :
       /\ x0 # x1
       /\ interp' = [by |-> "linear", x |-> x, x0 |-> x0, x1 |-> x1, y0 |-> y0, y1 |-> y1,
                     z |-> linear(x, x0, x1, y0, y1)]
  /\ UNCHANGED <<treeVars, parVars, poiVars, gridVars, axisVars, binVars, loessVars>>

\* spline_3d for one target: the frame holds the planes z(0) < z(1) around zi,
\* z0 and z1 are the values interpolated in the two planes
Spline3D ==
  /\ interp = <<>>
  /\ \E zi, fz0, fz1 \in LinearCoordinates, z0, z1 \in LinearValues :
       /\ fz0 < fz1 /\ fz0 <= zi /\ zi <= fz1
       /\ interp' = [by |-> "spline_3d", x |-> zi, x0 |-> fz0, x1 |-> fz1, y0 |-> z0, y1 |-> z1,
                     z |-> linear(zi, fz0, fz1, z0, z1)]
  /\ UNCHANGED <<treeVars, parVars, poiVars, gridVars, axisVars, binVars, loessVars>>

LinearInit == LinearIdle /\ LoessIdle /\ AxisIdle /\ BinIdle /\ TreeIdle /\ ParIdle /\ PoiIdle /\ GridIdle
LinearNext == Linear \/ Spline3D
SpecLinear == LinearInit /\ [][LinearNext]_vars

----------------------------------------------------------------------------
(* Properties of the vectorized operations *)

PureInterpolators == Splines \cup {"query", "covered_by"}

\* C1: a pure interpolator that returns has written every element of its output
\* exactly once, and the output is the one of the call made with num_threads = 1
\* on the same inputs, whatever num_threads >= 1 is.
C1_SameOutputForEveryNumThreads ==
  (pc = "returned" /\ op \in PureInterpolators) =>
    /\ out = SingleThreadResult(op, args)
    /\ \A ix \in DOMAIN nwrites : nwrites[ix] = 1

\* a vectorized query returned by two workers or more that each wrote a row
C1_Witness ==
  /\ pc = "returned" /\ op = "query"
  /\ Cardinality({w \in Workers : wcur[w] > Ranges(op, args.size, args.T)[w].start}) >= 2

\* C2: in every parallel operation a call in which a worker raised does not
\* return a result: the exception is thrown again once the workers have joined.
C2_RaisedIsRethrown ==
  /\ pc = "returned" => threw = {}
  /\ (pc = "raised" /\ args.invalid # "shape") =>
       (threw # {} /\ \A w \in Workers : wstate[w] = "finished")

----------------------------------------------------------------------------
(* Properties of fill::poisson *)

Below(residual, epsilon) == residual < epsilon.units

\* C3: in a sweep of poisson_grid_fill no worker reads or writes a cell of the
\* grid that another worker writes in that sweep.
C3_WritersNeverRace ==
  \A w1, w2 \in DOMAIN access :
    w1 # w2 => access[w1].w \cap (access[w2].r \cup access[w2].w) = {}

\* C4: fill::poisson runs at most max_iterations sweeps; when it returns, the
\* iteration count is the number of sweeps run, max_residual is the residual of
\* the last of them, and fewer than max_iterations sweeps were run on a grid
\* with NaN only if the residual of the last one is below epsilon.
C4_StopsWithinMaxIterations ==
  /\ ppc # "start" => iteration <= prm.max_iterations
  /\ ppc = "done" =>
       /\ Len(residuals) = iteration
       /\ iteration > 0 => max_residual = residuals[iteration]
       /\ (HasNaN(prm.input) /\ iteration < prm.max_iterations) =>
            (iteration > 0 /\ Below(residuals[iteration], prm.epsilon))

C4_Witness ==
  /\ ppc = "done" /\ iteration >= 2
  /\ iteration = prm.max_iterations
  /\ ~Below(max_residual, prm.epsilon)

\* C5: with a relaxation constant in (0, 1] the max residuals of the successive
\* sweeps of a call never increase.
C5_ResidualNonIncreasing ==
  (ppc # "start" /\ 0 < prm.relaxation.num /\ prm.relaxation.num <= prm.relaxation.den) =>
    \A i \in 1..(Len(residuals) - 1) : residuals[i + 1] <= residuals[i]

\* C6: on the 3x3 grid of ones with a NaN centre, with first_guess kZero,
\* relaxation 1 and epsilon 1e-9, a call allowed two sweeps or more returns
\* after the second one with the centre within epsilon of 1.0 and a max
\* residual below epsilon.
C6_CentreHoleConverges ==
  (/\ ppc = "done" /\ prm.input = CentreHole /\ prm.first_guess = "kZero"
   /\ prm.relaxation = One /\ prm.epsilon = Epsilon1e9
   /\ prm.max_iterations >= 2) =>
    /\ iteration = 2
    /\ Below(Abs(grid[<<1, 1>>] - Scale), prm.epsilon)
    /\ Below(max_residual, prm.epsilon)

C6_Witness ==
  /\ ppc = "done" /\ prm.input = CentreHole /\ prm.first_guess = "kZero"
  /\ prm.relaxation = One /\ prm.epsilon = Epsilon1e9
  /\ prm.max_iterations >= 2 /\ prm.num_threads >= 2
  /\ grid[<<1, 1>>] = Scale

----------------------------------------------------------------------------
(* Properties of the grids *)

\* the axis i of the call, of length n, has the extent of the array along the
\* dimension i
AxisFits(i) == i <= Len(ctor.array) /\ ctor.axes[i] = ctor.array[i]
\* the C++ exceptions of an invalid argument (std::logic_error), both raised
\* in Python as ValueError
InvalidArgumentErrors == {"invalid_argument", "domain_error"}

\* C7: a Grid2D or a Grid3D, built by its constructor or by setstate, exists
\* only if every axis has the length of the array's extent along its
\* dimension, and a construction with an axis that has not fails with an
\* invalid argument error; so shape[i] = axis[i].length in every grid.
C7_ShapeMatchesAxes ==
  /\ built # NoGrid =>
       /\ Len(built.axes) = built.dim /\ Len(built.shape) = built.dim
       /\ \A i \in 1..built.dim : built.shape[i] = built.axes[i]
  /\ (ctor.name # "none" /\ Len(ctor.axes) = ctor.dim) =>
       /\ ctor.error = Ok => (built # NoGrid /\ \A i \in 1..ctor.dim : AxisFits(i))
       /\ (\E i \in 1..ctor.dim : ~AxisFits(i)) =>
            (built = NoGrid /\ ctor.error \in InvalidArgumentErrors)

C7_Witness ==
  /\ ctor.name = "Grid3D" /\ Len(ctor.array) = 3
  /\ AxisFits(1) /\ AxisFits(2) /\ ~AxisFits(3)
  /\ built = NoGrid /\ ctor.error = "invalid_argument"

----------------------------------------------------------------------------
(* Properties of the RTree *)

IsQuery(within) == lastQuery.name = "query" /\ lastQuery.within = within
Injective(f) == \A a, b \in DOMAIN f : f[a] = f[b] => a = b
Filled(row) == {jx \in 1..Len(row.dist) : row.dist[jx] # -1}
LeafHaversine(point, i) == Haversine(point, EcefToLla(tree[i].ecef))
LeafDist2(point, i) == Dist2(tree[i].ecef, LlaToEcef(point))

\* The row of a query holds min(k, n) neighbours, each the value of a leaf of its
\* own with the haversine distance of that leaf, and Closer(o, i) holds of no
\* leaf o left out and leaf i returned.
ReturnsNearest(Closer(_, _)) ==
  LET q == lastQuery
      m == Min2(q.k, Len(tree))
  IN  /\ Filled(q.row) = 1..m
      /\ \E f \in [1..m -> 1..Len(tree)] :
           /\ Injective(f)
           /\ \A j \in 1..m : /\ q.row.value[j] = tree[f[j]].value
                              /\ q.row.dist[j] = LeafHaversine(q.point, f[j])
           /\ \A o \in (1..Len(tree)) \ {f[j] : j \in 1..m} :
                \A j \in 1..m : ~Closer(o, f[j])

\* C8, as claimed: query(point, k) returns min(k, n) neighbours and no stored
\* point left out is strictly closer to the target in haversine distance than a
\* returned one, whatever the altitudes.
C8_NearestByHaversine ==
  IsQuery(FALSE) =>
    LET Closer(o, i) == LeafHaversine(lastQuery.point, o) < LeafHaversine(lastQuery.point, i)
    IN  ReturnsNearest(Closer)

\* C8, amended: query(point, k) returns min(k, n) neighbours, the nearest by
\* Euclidean distance between ECEF positions (no stored point left out is strictly
\* closer to the target in ECEF distance than a returned one); the distance
\* reported with each neighbour is its haversine distance to the target.
C8_NearestByEcef ==
  IsQuery(FALSE) =>
    LET Closer(o, i) == LeafDist2(lastQuery.point, o) < LeafDist2(lastQuery.point, i)
    IN  ReturnsNearest(Closer)

\* a query that leaves out a stored point, in a tree holding two altitudes
C8_Witness ==
  /\ IsQuery(FALSE)
  /\ Len(tree) > lastQuery.k
  /\ Filled(lastQuery.row) # {}
  /\ \E i, j \in 1..Len(tree) : EcefToLla(tree[i].ecef).alt # EcefToLla(tree[j].ecef).alt

\* C9: after any sequence of packing and insert calls the tree holds exactly the
\* points of the last packing and those inserted since, each with the value
\* supplied with it, and a query that asks for them all returns these values.
C9_HoldsSuppliedValues ==
  /\ SeqToBag(tree) = stored
  /\ (IsQuery(FALSE) /\ lastQuery.k >= Len(tree)) =>
       SeqToBag([j \in 1..Len(tree) |-> lastQuery.row.value[j]])
         = SeqToBag([j \in 1..Len(tree) |-> tree[j].value])

\* C10: with within = true the row of a target is the row query gives with
\* within = false when the target's ECEF position lies in the axis-aligned box of
\* the ECEF positions of its k nearest neighbours, and holds -1 in all its k
\* slots, distances and values, otherwise.
C10_WithinEnvelope ==
  IsQuery(TRUE) =>
    LET q == lastQuery
        e == LlaToEcef(q.point)
        free == RTreeQuery(tree, q.point, q.k)
        near == NearestK(tree, e, q.k)
        box == {tree[near[j]].ecef : j \in 1..Len(near)}
        inBox == /\ \E lo, hi \in box : lo.x <= e.x /\ e.x <= hi.x
                 /\ \E lo, hi \in box : lo.y <= e.y /\ e.y <= hi.y
                 /\ \E lo, hi \in box : lo.z <= e.z /\ e.z <= hi.z
    IN  IF inBox
        THEN \A jx \in 1..q.k :
               /\ q.row.dist[jx] = IF jx <= Len(free) THEN free[jx].dist ELSE -1
               /\ q.row.value[jx] = IF jx <= Len(free) THEN free[jx].value ELSE -1
        ELSE \A jx \in 1..q.k : q.row.dist[jx] = -1 /\ q.row.value[jx] = -1

\* a target accepted by within = true that is none of its two neighbours
C10_Witness ==
  /\ IsQuery(TRUE)
  /\ Cardinality(Filled(lastQuery.row)) >= 2
  /\ \A i \in 1..Len(tree) : tree[i].ecef # LlaToEcef(lastQuery.point)


\* C11: query_ball(target, radius) returns one pair for every leaf whose
\* haversine distance to the target is at most the radius and none for the
\* others, each pair holding that distance and the leaf's value.
C11_BallHoldsPointsWithinRadius ==
  lastQuery.name = "query_ball" =>
    LET q == lastQuery
        inside == {i \in 1..Len(tree) : LeafHaversine(q.point, i) <= q.radius}
    IN  /\ Len(q.result) = Cardinality(inside)
        /\ \E f \in [1..Len(q.result) -> inside] :
             /\ Injective(f)
             /\ \A j \in 1..Len(q.result) :
                  /\ q.result[j].dist = LeafHaversine(q.point, f[j])
                  /\ q.result[j].value = tree[f[j]].value

\* C12: equatorial_bounds returns nothing for an empty tree, and else the box
\* whose corners are the component-wise minimum and maximum of the longitudes,
\* latitudes and altitudes of the leaves.
C12_BoundsAreMinAndMax ==
  lastQuery.name = "equatorial_bounds" =>
    LET lla == {EcefToLla(tree[i].ecef) : i \in 1..Len(tree)}
        box == lastQuery.box
    IN  IF tree = <<>> THEN box.empty
        ELSE /\ ~box.empty
             /\ box.min_corner = <<Num(SetMin({p.lon : p \in lla})), Num(SetMin({p.lat : p \in lla})),
                                   Num(SetMin({p.alt : p \in lla}))>>
             /\ box.max_corner = <<Num(SetMax({p.lon : p \in lla})), Num(SetMax({p.lat : p \in lla})),
                                   Num(SetMax({p.alt : p \in lla}))>>

----------------------------------------------------------------------------
(* Properties of the Axis *)

IsFind == found.name = "find_index"
\* the indices of the axis looked up that hold the coordinate x
IndicesOf(x) == {i \in 0..(Size(found.on) - 1) : found.on.points[i + 1] = x}

\* C15: on an ascending axis, regular or not, find_index(A[i], bounded=true)
\* is i for every index i.
C15_FindsItsOwnCoordinates ==
  (IsFind /\ found.bounded /\ found.on.is_ascending) =>
    \A i \in IndicesOf(found.x) : found.index = i

C15_Witness ==
  /\ IsFind /\ found.bounded /\ found.on.is_ascending /\ ~found.on.is_regular
  /\ IndicesOf(found.x) = {Size(found.on) - 1}
  /\ found.index = Size(found.on) - 1

C17_FlipTwiceIsIdentity ==
  flips = 2 =>
    /\ chain = orig
    /\ inplaces = 0 => axis = orig

C17_Witness ==
  /\ flips = 2 /\ inplaces = 0 /\ ~aliased
  /\ Size(orig) >= 2 /\ chain = orig /\ axis = orig

\* C27: flip without inplace returns a new axis that holds the reversed
\* coordinates and leaves the axis it was called on unchanged; flip with
\* inplace reverses the axis itself and returns it; find_index, find_indexes,
\* is_regular, is_ascending, front and back do not modify the axis.
C27_OnlyFlipInPlaceModifies ==
  [][/\ (flips' = flips + 1 /\ aliased) =>
          IF inplaces' = inplaces
          THEN /\ axis' = axis /\ ~aliased'
               /\ chain'.points = Reverse(axis.points)
          ELSE /\ aliased' /\ axis' = chain'
               /\ axis'.points = Reverse(axis.points)
     /\ found' # found => (axis' = axis /\ chain' = chain /\ aliased' = aliased)]_vars

C27_Witness ==
  /\ flips = 2 /\ inplaces = 1 /\ ~aliased
  /\ Size(orig) >= 2 /\ axis.points = Reverse(orig.points) /\ chain = orig
  /\ found.name = "front" /\ found.index = orig.points[1]

\* C28: packing and insert reject with invalid_argument a coordinates matrix
\* whose rows are not as many as the values or whose columns are neither 2
\* nor 3, and the tree then holds exactly what it held before the call.
C28_RejectsBadShapes ==
  loaded # NoLoad =>
    /\ loaded.raised <=> (loaded.rows # loaded.size \/ loaded.cols \notin {2, 3})
    /\ loaded.raised => tree = loaded.before

C28_Witness ==
  /\ loaded.name = "insert" /\ loaded.raised
  /\ loaded.rows = loaded.size /\ loaded.cols = 4
  /\ Len(tree) = 2 /\ tree = loaded.before

----------------------------------------------------------------------------
(* Properties of the binning *)

IsPush == pushed.name = "push"
\* the coordinate, reduced modulo the period on a circular axis, is in the
\* domain of the axis
InAxisDomain(a, x) ==
  MinValue(a) <= NormalizeCoordinate(a, x) /\ NormalizeCoordinate(a, x) <= MaxValue(a)

\* C13: a push adds the sample to an accumulator if and only if z is not NaN
\* and x and y are inside the domain of their axis; otherwise no accumulator
\* changes.
C13_PushDropsSamplesOutside ==
  IsPush =>
    (bins[pushed.k] # pushed.before
       <=> /\ ~pushed.z.nan
           /\ InAxisDomain(bcfg.x, pushed.x)
           /\ InAxisDomain(bcfg.y, pushed.y))

\* C14: (B1 + B2) + B3 and B1 + (B2 + B3) have the same count, sum, sum of
\* weights, min and max in every cell.
C14_MergeIsAssociative ==
  merged.name = "merge" =>
    \A c \in DOMAIN merged.left : merged.left[c] = merged.right[c]

\* count, sum, min, max and mean of every cell
Statistics(acc) ==
  [c \in DOMAIN acc |->
     [count |-> acc[c].count, sum |-> acc[c].sum, min |-> acc[c].min, max |-> acc[c].max,
      mean |-> Mean(acc[c])]]
\* a newly constructed binning on the axes of the model
FreshBinning == [c \in BinCells(bcfg) |-> EmptyAccumulator]

\* C29: after clear every cell has the statistics of a newly constructed
\* binning on the same axes: a push after the clear gives the count, sum,
\* min, max and mean the same push gives on a fresh binning; clear leaves the
\* axes as they were.
C29_ClearGivesAFreshBinning ==
  pushed.name = "clear" =>
    /\ Statistics(bins[pushed.k]) = Statistics(FreshBinning)
    /\ \A x \in SampleX, y \in SampleY, z \in SampleZ :
         Statistics(NearestBivariatePush(bcfg, bins[pushed.k], x, y, z))
           = Statistics(NearestBivariatePush(bcfg, FreshBinning, x, y, z))
    /\ bcfg = pushed.axes

C29_Witness ==
  /\ pushed.name = "clear"
  /\ \E c \in DOMAIN pushed.before : c[1] # 0 /\ pushed.before[c].count = 2
  /\ bins[pushed.k] = FreshBinning

----------------------------------------------------------------------------
(* Properties of the splines *)

SplineDone == op \in Splines /\ pc \in {"returned", "raised"} /\ args.invalid = "none"
\* the targets whose frame cannot be loaded
Outside == {ix \in 0..(args.size - 1) : ~InDomain(args.in[ix + 1])}

\* C18: without bounds_error a target whose frame cannot be loaded gets NaN
\* and the other targets of the call get their interpolated value; with
\* bounds_error such a target makes the call raise, and no array is returned.
C18_BoundsError ==
  SplineDone =>
    IF args.flag /\ Outside # {}
    THEN pc = "raised"
    ELSE args.fault = {} =>
           /\ pc = "returned"
           /\ \A ix \in 0..(args.size - 1) :
                out[ix] = IF ix \in Outside THEN NaN
                          ELSE <<"interpolate", args.in[ix + 1]>>

C18_Witness ==
  /\ SplineDone /\ ~args.flag /\ args.fault = {} /\ args.T >= 2
  /\ pc = "returned"
  /\ \E ix, jx \in 0..(args.size - 1) :
       /\ ix \in Outside /\ out[ix] = NaN
       /\ jx \notin Outside /\ out[jx] = <<"interpolate", args.in[jx + 1]>>

\* C19: a spline call that fails the validation of its inputs starts no
\* worker and writes no element of the output.
C19_ValidationBeforeWorkers ==
  (op \in Splines /\ args.invalid # "none") =>
    /\ Workers = {}
    /\ \A ix \in DOMAIN nwrites : nwrites[ix] = 0

----------------------------------------------------------------------------
(* Properties of fill::loess *)

\* sum of w_i * z_i and sum of w_i over the defined samples of the window of c
WindowSums(c) ==
  Accumulated(lin.given, c[1], c[2], lin.nx, lin.ny,
              WindowSamples(lin.given, c[1], c[2], lin.nx, lin.ny))

\* what the result holds in cell c, as claimed
ClaimedResult(c) ==
  IF ~lin.given[c].nan THEN lin.given[c]
  ELSE IF WindowSums(c).weight > 0
       THEN [nan |-> FALSE, num |-> WindowSums(c).value, den |-> WindowSums(c).weight]
       ELSE NotANumber

\* C20: in the array loess returns a cell defined in the grid has its input
\* value, a NaN cell whose window has a total weight > 0 has the weighted mean
\* of the defined samples of the window, a NaN cell of total weight 0 is NaN;
\* the grid is not modified.
C20_LoessFillsTheNaNCells ==
  lpc = "returned" =>
    /\ lin.grid = lin.given
    /\ \A c \in DOMAIN lout : lout[c] = ClaimedResult(c)

\* the same when no window allocation fails
LoessFillsWhenNothingThrows ==
  (lpc = "returned" /\ ~lin.throws) =>
    /\ lin.grid = lin.given
    /\ \A c \in DOMAIN lout : lout[c] = ClaimedResult(c)

\* the index i mirrored at the ends of an axis of len coordinates
Mirrored(i, len) ==
  LET m == i % (2 * (len - 1))
  IN  IF m < len THEN m ELSE 2 * (len - 1) - m

\* the window claimed for the cell c: n cells on each side, mirrored
CentredWindow(c) ==
  [j \in 1..((2 * lin.nx + 1) * (2 * lin.ny + 1)) |->
     <<Mirrored(c[1] - lin.nx + ((j - 1) \div (2 * lin.ny + 1)), XSize(lin.given)),
       Mirrored(c[2] - lin.ny + ((j - 1) % (2 * lin.ny + 1)), LoessYSize)>>]

\* C25: for each NaN cell loess gathers the window of (2 nx + 1) x (2 ny + 1)
\* cells centred on the cell, nx cells on each side along X and ny along Y,
\* mirrored at the edges of the grid.
C25_WindowCentredOnTheCell ==
  lpc # "start" =>
    \A c \in DOMAIN lin.given :
      lin.given[c].nan =>
        WindowSamples(lin.given, c[1], c[2], lin.nx, lin.ny) = CentredWindow(c)

\* the window holds 2 nx x 2 ny cells
WindowOfTwiceTheHalfWidths ==
  lpc # "start" =>
    \A c \in DOMAIN lin.given :
      Len(WindowSamples(lin.given, c[1], c[2], lin.nx, lin.ny)) = 4 * lin.nx * lin.ny

----------------------------------------------------------------------------
(* Properties of detail::math::linear *)

\* the textbook value t * y0 + u * y1 of the arguments of the last call
Textbook ==
  LET dx == Minus(interp.x1, interp.x0)
      t == Over(Minus(interp.x1, interp.x), dx)
      u == Over(Minus(interp.x, interp.x0), dx)
  IN  Plus(Times(t, interp.y0), Times(u, interp.y1))

\* C26: for x0 # x1, linear(x, x0, x1, y0, y1) is the textbook value
\* t * y0 + u * y1 with t = (x1 - x) / (x1 - x0) and u = (x - x0) / (x1 - x0);
\* it is y0 at x = x0 and y1 at x = x1, the value spline_3d returns for a
\* target on a Z plane.
C26_LinearIsTheTextbookValue ==
  interp # <<>> =>
    /\ interp.z = [finite |-> TRUE, v |-> Textbook]
    /\ interp.x = interp.x0 => interp.z = [finite |-> TRUE, v |-> interp.y0]
    /\ interp.x = interp.x1 => interp.z = [finite |-> TRUE, v |-> interp.y1]

\* the value at the two ends of the interval
LinearAtTheNodes ==
  interp # <<>> =>
    /\ interp.x = interp.x0 => interp.z = [finite |-> TRUE, v |-> interp.y0]
    /\ interp.x = interp.x1 => interp.z = [finite |-> TRUE, v |-> interp.y1]

\* between the nodes and outside of them when t + u rounds to 1
LinearWhenTheWeightsSumToOne ==
  (interp # <<>> /\ Plus(Over(Minus(interp.x1, interp.x), Minus(interp.x1, interp.x0)),
                         Over(Minus(interp.x, interp.x0), Minus(interp.x1, interp.x0))) = Unit)
    => interp.z = [finite |-> TRUE, v |-> Textbook]

\* the targets of spline_3d lie between the planes of the frame
SplineBetweenThePlanes ==
  (interp # <<>> /\ interp.by = "spline_3d") => interp.z = [finite |-> TRUE, v |-> Textbook]

----------------------------------------------------------------------------
(* Properties of the sweeps of fill::poisson *)

Swept == ppc \in {"sweep", "done"} /\ iteration >= 1
\* the rows handed to the worker w
StripRows(w) ==
  LET strip == PoissonStrips(prm.input.y_size, prm.num_threads)[w]
  IN  strip.start..(strip.end - 1)
\* the calls of cell_fill the workers made last
LastCalls == {access[w].last : w \in DOMAIN access} \ {NoCellFill}

\* C21: the row ranges of the workers of a sweep are pairwise disjoint and
\* cover the rows 0 .. y_size - 1, and a sweep that has ended has updated each
\* masked cell once.
C21_StripsCoverTheRows ==
  Swept =>
    /\ \A w1, w2 \in DOMAIN access : w1 # w2 => StripRows(w1) \cap StripRows(w2) = {}
    /\ UNION {StripRows(w) : w \in DOMAIN access} = 0..(prm.input.y_size - 1)
    /\ ppc = "done" =>
         /\ UNION {access[w].w : w \in DOMAIN access} = mask
         /\ \A w \in DOMAIN access : access[w].n = Cardinality(access[w].w)

\* the value a Jacobi update gives the cell of a call: computed from the grid
\* as the sweep found it
JacobiValue(call) ==
  grid0[<<call.ix, call.iy>>]
    + CellResidual(grid0, call.ix, call.iy, call.n, prm.relaxation)

\* C22: the value a sweep gives a masked cell is computed from the values its
\* four neighbours had when the sweep started.
C22_SweepIsJacobi ==
  Swept =>
    \A call \in LastCalls :
      CellReads(call.ix, call.iy, call.n) \subseteq DOMAIN grid0 =>
        grid[<<call.ix, call.iy>>] = JacobiValue(call)

\* C23: the cells defined on entry keep their value, whatever the first
\* guess, the number of sweeps and of threads; a grid without NaN is left as
\* it is and the call returns (0, 0).
C23_DefinedCellsUntouched ==
  ppc # "start" =>
    /\ \A c \in Cells(prm.input) \ prm.input.nan : grid[c] = prm.input.v[c] * Scale
    /\ (ppc = "done" /\ ~HasNaN(prm.input)) => (iteration = 0 /\ max_residual = 0)

C23_Witness ==
  /\ ppc = "done" /\ iteration >= 2 /\ prm.num_threads >= 2
  /\ prm.first_guess = "kZonalAverage"
  /\ \E c \in prm.input.nan : grid[c] # 0
  /\ \E c \in Cells(prm.input) \ prm.input.nan : grid[c] = prm.input.v[c] * Scale /\ grid[c] # 0

\* the neighbours of the cell of a call, as claimed
MirrorOrCircle(call) ==
  LET x_size == prm.input.x_size
      y_size == prm.input.y_size
  IN  /\ call.n.iy0 = IF call.iy = 0 THEN 1 ELSE call.iy - 1
      /\ call.n.iy1 = IF call.iy = y_size - 1 THEN y_size - 2 ELSE call.iy + 1
      /\ call.n.ix0 = IF call.ix = 0 THEN (IF prm.is_circle THEN x_size - 1 ELSE 1)
                      ELSE call.ix - 1
      /\ call.n.ix1 = IF call.ix = x_size - 1 THEN (IF prm.is_circle THEN 0 ELSE x_size - 2)
                      ELSE call.ix + 1

\* C24: across a Y edge the neighbour is the mirror row; across an X edge it
\* is the cell at the other end of the row when X is circular and the mirror
\* column otherwise.
C24_NeighboursAcrossTheEdges ==
  Swept => \A call \in LastCalls : MirrorOrCircle(call)

\* the same on the grids of two columns or more
NeighboursAcrossTheEdgesOfWideGrids ==
  (Swept /\ prm.input.x_size >= 2) => \A call \in LastCalls : MirrorOrCircle(call)

\* C30: every index a sweep uses, of the cell updated and of its four
\* neighbours, is inside the grid.
C30_IndicesInsideTheGrid ==
  Swept =>
    \A w \in DOMAIN access : access[w].r \cup access[w].w \subseteq Cells(prm.input)

============================================================================
